---- MODULE Spec2Model ----
(***************************************************************************)
(* Event propagation of the task system: the retrying publisher of         *)
(* chat-api, the reminder job callback, and the three idempotent consumers *)
(* (audit-service, notification-service, recurring-task-service) with the  *)
(* Dapr state store they share.                                            *)
(***************************************************************************)
EXTENDS Integers, Sequences, FiniteSets, TLC

VARIABLES
    statestore,   \* Dapr state store: key -> value and time-to-live, NoValue when absent
    broker,       \* envelopes the broker holds
    hnd,          \* consumer handler invocations in flight, per slot
    delivered,    \* deliveries the broker has started
    results,      \* per (scope, event_id): handler outcomes, in order of completion
    responses,    \* per (scope, event_id): what the endpoint answered, in the same order
    audit_log,    \* per event_id: rows of the audit_log table
    notified,     \* per event_id: [NOTIFICATION_STUB] actions performed
    sent,         \* per event_id: user-facing [NOTIFICATION_TRIGGERED] actions
    create_reqs,  \* per event_id: POSTs to chat-api /api/tasks
    writes,       \* per state key: state POSTs the store has applied
    faults,       \* per state key: a state store call on the key failed
    expired,      \* per state key: the marker's time-to-live has run out
    overlap,      \* per state key: two handlings of the key were in flight together
    store_call,   \* the latest call to the state store: how it went, what the client returned
    config,       \* module configuration read from the environment at start-up
    pub,          \* the publish_event call in progress or last finished
    posts,        \* the POSTs of that call, in order: event_id sent and the answer
    used,         \* event ids uuid4 has handed out or callers have supplied
    callbacks,    \* per job name: invocations of the reminder callback route
    now,          \* datetime.utcnow(), in minutes
    tasks,        \* the task table of chat-api, per task id
    jobs,         \* the jobs the Dapr scheduler holds
    calls,        \* per request slot: the background tasks of a request, running or finished
    started       \* requests and direct calls started

vars == <<statestore, broker, hnd, delivered, results, responses, audit_log, notified, sent,
          create_reqs, writes, faults, expired, overlap, store_call, config, pub, posts,
          used, callbacks, now, tasks, jobs, calls, started>>

consumerVars == <<statestore, hnd, delivered, results, responses, audit_log, notified, sent,
                  create_reqs, writes, faults, expired, overlap, store_call>>
publisherVars == <<config, pub, posts, used, callbacks>>
schedulerVars == <<now, tasks, jobs, calls, started>>

----------------------------------------------------------------------------
(* Bounds *)

MaxDeliveries == 3      \* deliveries the broker makes in one run

EventIds == {"e1", "e2"}
Slots == {1, 2}         \* handler invocations in flight at once

None == "None"
NoValue == [value |-> "", ttlInSeconds |-> 0]

\* The answer to an HTTP call: a response, or httpx.RequestError raised instead.
Response(status_code, text) == [raised |-> FALSE, status_code |-> status_code, text |-> text]
RequestError == [raised |-> TRUE, status_code |-> 0, text |-> ""]

----------------------------------------------------------------------------
(* Envelopes *)

Scopes == {"audit", "notification", "recurring"}

\* An optional instant is a set of at most one day number: {} is Python's None.
\* The consumer only adds whole days to a due date.
DueDay == 10
NoDate == {}

TaskPayloads ==
    { [task_id |-> "t1", is_recurring |-> FALSE, recurrence_rule |-> None, due_date |-> {DueDay}],
      [task_id |-> "t1", is_recurring |-> TRUE, recurrence_rule |-> "DAILY", due_date |-> {DueDay}],
      [task_id |-> "t1", is_recurring |-> TRUE, recurrence_rule |-> "FOO", due_date |-> {DueDay}] }

ReminderPayloads ==
    { [task_id |-> "t1", is_recurring |-> FALSE, recurrence_rule |-> None, due_date |-> {DueDay}] }

\* Variant: the envelope always gets a fresh id, whatever the caller passed.
_build_event_fresh(event_type, user_id, payload, event_id, uuid4) ==
    [ event_id |-> uuid4,
      event_type |-> event_type,
      timestamp |-> "utcnow",
      user_id |-> user_id,
      payload |-> payload,
      source |-> "chat-api",
      specversion |-> "1.0" ]

_build_event(event_type, user_id, payload, event_id, uuid4) ==
    [ event_id |-> IF event_id = None \/ event_id = "" THEN uuid4 ELSE event_id,
      event_type |-> event_type,
      timestamp |-> "utcnow",
      user_id |-> user_id,
      payload |-> payload,
      source |-> "chat-api",
      specversion |-> "1.0" ]

\* The order in which uuid4 hands out the event ids.
PublishedBefore(e1, e2) == e1 = "e1" /\ e2 = "e2"

\* uuid4 returns an id never handed out before.
Fresh(uuid4) == uuid4 \notin used /\ \A e \in EventIds : PublishedBefore(e, uuid4) => e \in used

\* The topic an event type is published to (publish_task_event, publish_reminder_event).
TopicOf(event_type) ==
    IF event_type \in {"reminder.scheduled", "reminder.triggered"}
    THEN "reminders" ELSE "task-events"

\* The event types and payloads producers publish.
EnvelopeArgs ==
    { [event_type |-> "task.completed", payload |-> p] : p \in TaskPayloads }
    \cup { [event_type |-> t, payload |-> p] :
             t \in {"reminder.scheduled", "reminder.triggered"}, p \in ReminderPayloads }

\* Subscriptions (get_subscriptions of each service): which scope receives which envelope.
Subscribed(scope, env) ==
    CASE scope = "audit" -> TopicOf(env.event_type) = "task-events"
      [] scope = "notification" -> TopicOf(env.event_type) = "reminders"
      [] scope = "recurring" -> env.event_type = "task.completed"

----------------------------------------------------------------------------
(* Idempotency store client *)

\* Variant: one key per event_id for all consumers.
_key_shared(scope, event_id) == "processed:" \o event_id

_key(scope, event_id) ==
    CASE scope = "audit" -> "audit-processed:" \o event_id
      [] scope = "notification" -> "notification-processed:" \o event_id
      [] scope = "recurring" -> "recurring-processed:" \o event_id

\* What a consumer finds under "event_id" in a delivered body: an id, or None
\* when the field is missing (body.get).
Ids == EventIds \cup {None}

Keys == { _key(s, e) : s \in Scopes, e \in Ids }

\* Variant: the time-to-live of a day counted in minutes.
ttl_seconds_in_minutes == 24 * 60

ttl_seconds == 86400

\* How the state store answers one call.
StoreModes == {"ok", "status500", "unreachable"}

\* GET /v1.0/state/<store>/<key>: 200 with the value, 204 with no body when absent.
StateGet(key, mode) ==
    CASE mode = "unreachable" -> RequestError
      [] mode = "status500" -> Response(500, "error")
      [] OTHER -> IF statestore[key] = NoValue
                  THEN Response(204, "")
                  ELSE Response(200, statestore[key].value)

\* POST /v1.0/state/<store>: the store after the call.
StatePost(key, value, ttl, mode) ==
    IF mode = "ok"
    THEN [statestore EXCEPT ![key] = [value |-> value, ttlInSeconds |-> ttl]]
    ELSE statestore

\* POST /v1.0/state/<store>: the status the caller sees.
StatePostStatus(mode) ==
    CASE mode = "unreachable" -> RequestError
      [] mode = "status500" -> Response(500, "error")
      [] OTHER -> Response(204, "")

\* Variant: the body is tested for emptiness the wrong way round.
is_processed_empty(response) ==
    IF response.raised THEN FALSE
    ELSE response.status_code = 200 /\ response.text = ""

\* Variant: an unreachable store counts as "already processed".
is_processed_closed(response) ==
    IF response.raised THEN TRUE
    ELSE response.status_code = 200 /\ response.text # ""

is_processed(response) ==
    IF response.raised THEN FALSE
    ELSE response.status_code = 200 /\ response.text # ""

mark_processed(response) ==
    IF response.raised THEN FALSE
    ELSE response.status_code \in {200, 201, 204}

----------------------------------------------------------------------------
(* Python strings *)

\* The characters of the strings the model uses: a string is handled as the
\* sequence of its characters.
CharTable ==
    ("DAILY" :> << "D", "A", "I", "L", "Y" >>)
    @@ ("WEEKLY" :> << "W", "E", "E", "K", "L", "Y" >>)
    @@ ("MONTHLY" :> << "M", "O", "N", "T", "H", "L", "Y" >>)
    @@ ("YEARLY" :> << "Y", "E", "A", "R", "L", "Y" >>)
    @@ ("INTERVAL:3" :> << "I", "N", "T", "E", "R", "V", "A", "L", ":", "3" >>)
    @@ ("INTERVAL:10" :> << "I", "N", "T", "E", "R", "V", "A", "L", ":", "1", "0" >>)
    @@ ("daily" :> << "d", "a", "i", "l", "y" >>)
    @@ (" Weekly " :> << " ", "W", "e", "e", "k", "l", "y", " " >>)
    @@ ("interval:3" :> << "i", "n", "t", "e", "r", "v", "a", "l", ":", "3" >>)
    @@ ("" :> << >>)
    @@ (" " :> << " " >>)
    @@ ("FOO" :> << "F", "O", "O" >>)
    @@ ("INTERVAL:" :> << "I", "N", "T", "E", "R", "V", "A", "L", ":" >>)
    @@ ("INTERVAL:0" :> << "I", "N", "T", "E", "R", "V", "A", "L", ":", "0" >>)
    @@ ("INTERVAL:-1" :> << "I", "N", "T", "E", "R", "V", "A", "L", ":", "-", "1" >>)
    @@ ("INTERVAL:x" :> << "I", "N", "T", "E", "R", "V", "A", "L", ":", "x" >>)
    @@ ("INTERVAL:3:5" :> << "I", "N", "T", "E", "R", "V", "A", "L", ":", "3", ":", "5" >>)
    @@ ("INTERVAL: 3" :> << "I", "N", "T", "E", "R", "V", "A", "L", ":", " ", "3" >>)
    @@ ("INTERVAL:1_0" :> << "I", "N", "T", "E", "R", "V", "A", "L", ":", "1", "_", "0" >>)
    @@ ("INTERVAL3" :> << "I", "N", "T", "E", "R", "V", "A", "L", "3" >>)
    @@ ("every_3_days" :> << "e", "v", "e", "r", "y", "_", "3", "_", "d", "a", "y", "s" >>)
    @@ ("every_2_weeks" :> << "e", "v", "e", "r", "y", "_", "2", "_", "w", "e", "e", "k", "s" >>)
    @@ ("weekly" :> << "w", "e", "e", "k", "l", "y" >>)
    @@ ("monthly" :> << "m", "o", "n", "t", "h", "l", "y" >>)
    @@ ("every_" :> << "e", "v", "e", "r", "y", "_" >>)
    @@ ("_day" :> << "_", "d", "a", "y" >>)
    @@ ("_week" :> << "_", "w", "e", "e", "k" >>)

Chars(str) == CharTable[str]

Lowercase == << "a", "b", "c", "d", "e", "f", "g", "h", "i", "j", "k", "l", "m", "n", "o", "p", "q", "r", "s", "t", "u", "v", "w", "x", "y", "z" >>
Uppercase == << "A", "B", "C", "D", "E", "F", "G", "H", "I", "J", "K", "L", "M", "N", "O", "P", "Q", "R", "S", "T", "U", "V", "W", "X", "Y", "Z" >>
DigitChars == << "0", "1", "2", "3", "4", "5", "6", "7", "8", "9" >>
Whitespace == {" ", "\t", "\n"}

\* str.upper and str.lower
upper(s) ==
    [n \in 1..Len(s) |->
        IF \E k \in DOMAIN Lowercase : Lowercase[k] = s[n]
        THEN Uppercase[CHOOSE k \in DOMAIN Lowercase : Lowercase[k] = s[n]]
        ELSE s[n]]

lower(s) ==
    [n \in 1..Len(s) |->
        IF \E k \in DOMAIN Uppercase : Uppercase[k] = s[n]
        THEN Lowercase[CHOOSE k \in DOMAIN Uppercase : Uppercase[k] = s[n]]
        ELSE s[n]]

\* str.strip
RECURSIVE lstrip(_)
lstrip(s) == IF Len(s) > 0 /\ s[1] \in Whitespace THEN lstrip(SubSeq(s, 2, Len(s))) ELSE s

RECURSIVE rstrip(_)
rstrip(s) ==
    IF Len(s) > 0 /\ s[Len(s)] \in Whitespace THEN rstrip(SubSeq(s, 1, Len(s) - 1)) ELSE s

strip(s) == rstrip(lstrip(s))

\* str.startswith
startswith(s, prefix) == Len(s) >= Len(prefix) /\ SubSeq(s, 1, Len(prefix)) = prefix

\* str.split on a one-character separator
RECURSIVE split(_, _)
split(s, sep) ==
    IF \E n \in 1..Len(s) : s[n] = sep
    THEN LET n == CHOOSE k \in 1..Len(s) : s[k] = sep /\ \A m \in 1..(k - 1) : s[m] # sep
         IN << SubSeq(s, 1, n - 1) >> \o split(SubSeq(s, n + 1, Len(s)), sep)
    ELSE << s >>

isdigit(ch) == \E k \in DOMAIN DigitChars : DigitChars[k] = ch

DigitValue(ch) == (CHOOSE k \in DOMAIN DigitChars : DigitChars[k] = ch) - 1

RECURSIVE Decimal(_)
Decimal(digits) ==
    IF Len(digits) = 0 THEN 0
    ELSE 10 * Decimal(SubSeq(digits, 1, Len(digits) - 1)) + DigitValue(digits[Len(digits)])

\* int(str): the number as a set of one element, the empty set for ValueError.
\* Python accepts surrounding whitespace, a sign, and single underscores
\* between digits.
int(s) ==
    LET t == strip(s)
        signed == Len(t) > 0 /\ t[1] \in {"+", "-"}
        body == IF signed THEN SubSeq(t, 2, Len(t)) ELSE t
        wellformed ==
            /\ Len(body) > 0
            /\ \A n \in 1..Len(body) :
                  \/ isdigit(body[n])
                  \/ /\ body[n] = "_"
                     /\ n > 1 /\ n < Len(body)
                     /\ isdigit(body[n - 1]) /\ isdigit(body[n + 1])
        magnitude == Decimal(SelectSeq(body, isdigit))
    IN IF ~wellformed THEN {}
       ELSE IF t[1] = "-" THEN {0 - magnitude} ELSE {magnitude}

\* The leading digits of a string (what \d+ matches at its start).
RECURSIVE LeadingDigits(_)
LeadingDigits(s) ==
    IF Len(s) > 0 /\ isdigit(s[1])
    THEN << s[1] >> \o LeadingDigits(SubSeq(s, 2, Len(s)))
    ELSE << >>

----------------------------------------------------------------------------
(* Recurrence arithmetic of the recurring-task-service *)

\* re.match(r"every_(\d+)_<unit>s?", rule): int(match.group(1)) as a set of one
\* element, the empty set when the pattern does not match at the start of rule.
every_N(rule, unit) ==
    LET prefix == Chars("every_")
        rest == SubSeq(rule, Len(prefix) + 1, Len(rule))
        digits == LeadingDigits(rest)
        tail == SubSeq(rest, Len(digits) + 1, Len(rest))
    IN IF startswith(rule, prefix) /\ Len(digits) > 0 /\ startswith(tail, unit)
       THEN {Decimal(digits)} ELSE {}

\* The timedelta calculate_next_due_date adds for a rule, in days, as a set of
\* one element; the empty set for a rule it does not recognise.
timedelta_of(recurrence_rule) ==
    IF Len(Chars(recurrence_rule)) = 0 THEN {}
    ELSE LET rule == strip(lower(Chars(recurrence_rule))) IN
         IF rule = Chars("daily") THEN {1}
         ELSE IF rule = Chars("weekly") THEN {7}
         ELSE IF rule = Chars("monthly") THEN {30}
         ELSE IF every_N(rule, Chars("_day")) # {} THEN every_N(rule, Chars("_day"))
         ELSE IF every_N(rule, Chars("_week")) # {}
              THEN { 7 * weeks : weeks \in every_N(rule, Chars("_week")) }
         ELSE {}

\* timedelta_of, computed once for every string of the model.
TimedeltaOf == [rule \in DOMAIN CharTable |-> timedelta_of(rule)]

calculate_next_due_date(current_due_date, recurrence_rule) ==
    IF current_due_date = NoDate \/ recurrence_rule = None THEN NoDate
    ELSE { d + days : d \in current_due_date, days \in TimedeltaOf[recurrence_rule] }

\* Service invocation POST to chat-api: the task on 200/201, None otherwise.
InvokeResponses == {Response(200, "task"), Response(201, "task"), Response(500, "error"), RequestError}

create_task_via_dapr(response) ==
    IF response.raised THEN None
    ELSE IF response.status_code \in {200, 201} THEN response.text ELSE None

----------------------------------------------------------------------------
(* Publisher (chat-api services/events.py) *)

MAX_RETRIES == 3
RETRY_DELAY_MS == 500     \* RETRY_DELAY_SECONDS, in milliseconds

\* What the Dapr sidecar can answer to a publish POST.
PublishResponses ==
    { Response(c, "") : c \in {200, 201, 202, 204, 400, 500} } \cup {RequestError}

\* The test publish_event applies to the status of a response.
PublishSucceeded(response) == response.status_code \in {200, 201, 204}

\* Variant: the same delay after every failed attempt.
Backoff_constant(attempt) == RETRY_DELAY_MS

\* asyncio.sleep argument after failed attempt number attempt
Backoff(attempt) == RETRY_DELAY_MS * 2 ^ (attempt - 1)

NoCall == [pc |-> "idle"]

\* Scheduled reminder jobs (job name reminder-<task_id>) and their callback data.
Jobs == {"reminder-t1"}
JobData(job) == [task_id |-> "t1", is_recurring |-> FALSE, recurrence_rule |-> None,
                 due_date |-> {DueDay}]

----------------------------------------------------------------------------
(* Reminder times and the Dapr Jobs API (chat-api services/reminder.py, dapr/client.py) *)

MaxTime == 2            \* the clock runs up to this minute
MaxRequests == 2        \* requests and direct calls in one run

TaskIds == {"t1", "t2"}
Requests == {1, 2}      \* requests whose background tasks are in progress at once

\* What callers pass as due date and as reminder offset, in minutes; {} is None.
DueDates == {NoDate, {3}}
Offsets == {{}, {1}, {2}}
RemindTimes == {NoDate, {1}, {2}}

NoTask == [exists |-> FALSE, status |-> "pending", due_date |-> NoDate,
           reminder_offset_minutes |-> {}, remind_at |-> NoDate,
           is_recurring |-> FALSE, recurrence_rule |-> None, parent_task_id |-> None]

\* Variant: the offset is added to the due date.
calculate_remind_at_after(due_date, reminder_offset_minutes) ==
    IF due_date = NoDate \/ reminder_offset_minutes = {} THEN NoDate
    ELSE { d + m : d \in due_date, m \in reminder_offset_minutes }

calculate_remind_at(due_date, reminder_offset_minutes) ==
    IF due_date = NoDate \/ reminder_offset_minutes = {} THEN NoDate
    ELSE { d - m : d \in due_date, m \in reminder_offset_minutes }

\* Variant: no instant counts as past.
is_reminder_in_past_never(remind_at) == FALSE

is_reminder_in_past(remind_at) ==
    IF remind_at = NoDate THEN FALSE ELSE \E r \in remind_at : r < now

\* Variant: one job name for all tasks.
_build_job_name_shared(task_id) == "reminder"

_build_job_name(task_id) == "reminder-" \o task_id

\* How the scheduler answers one call.
SchedulerModes == {"ok", "status500", "unreachable"}

\* POST /v1.0-alpha1/jobs/<name>: the scheduler's jobs after the call. A job is
\* kept under its name, so a new job of a name takes the place of the old one.
JobPost(job_name, schedule_time, data, mode) ==
    IF mode = "ok"
    THEN { j \in jobs : j.name # job_name }
         \cup { [name |-> job_name, schedule |-> schedule_time, data |-> data] }
    ELSE jobs

JobPostStatus(mode) ==
    CASE mode = "unreachable" -> RequestError
      [] mode = "status500" -> Response(500, "error")
      [] OTHER -> Response(204, "")

\* DELETE /v1.0-alpha1/jobs/<name>: 204 when the job was there, 404 when not.
JobDelete(job_name, mode) ==
    IF mode = "ok" THEN { j \in jobs : j.name # job_name } ELSE jobs

JobDeleteStatus(job_name, mode) ==
    CASE mode = "unreachable" -> RequestError
      [] mode = "status500" -> Response(500, "error")
      [] OTHER -> IF \E j \in jobs : j.name = job_name
                  THEN Response(204, "") ELSE Response(404, "")

\* DaprClient.schedule_job and cancel_job: the value returned for an answer.
schedule_job(response) ==
    IF response.raised THEN FALSE ELSE response.status_code \in {200, 201, 204}

\* Variant: "not found" is reported as a failure.
cancel_job_strict(response) ==
    IF response.raised THEN FALSE ELSE response.status_code \in {200, 204}

cancel_job(response) ==
    IF response.raised THEN FALSE ELSE response.status_code \in {200, 204, 404}

----------------------------------------------------------------------------
(* Initial state *)

Idle == [pc |-> "idle"]

ConsumerInit ==
    /\ statestore = [k \in Keys |-> NoValue]
    /\ hnd = [i \in Slots |-> Idle]
    /\ delivered = 0
    /\ results = [s \in Scopes |-> [e \in Ids |-> << >>]]
    /\ responses = [s \in Scopes |-> [e \in Ids |-> << >>]]
    /\ audit_log = [e \in Ids |-> 0]
    /\ notified = [e \in Ids |-> 0]
    /\ sent = [e \in Ids |-> 0]
    /\ create_reqs = [e \in Ids |-> 0]
    /\ writes = [k \in Keys |-> 0]
    /\ faults = [k \in Keys |-> FALSE]
    /\ expired = [k \in Keys |-> FALSE]
    /\ overlap = [k \in Keys |-> FALSE]
    /\ store_call = [mode |-> "ok", result |-> FALSE]

PublisherInit ==
    /\ pub = NoCall
    /\ posts = << >>
    /\ callbacks = [j \in Jobs |-> 0]

SchedulerInit ==
    /\ now = 1
    /\ tasks = [t \in TaskIds |-> NoTask]
    /\ jobs = {}
    /\ calls = [c \in Requests |-> Idle]
    /\ started = 0

\* The consumers' view: the broker holds two logical events, published under
\* different event ids with the same type and payload snapshot.
Init ==
    /\ ConsumerInit
    /\ PublisherInit
    /\ SchedulerInit
    /\ \E a \in EnvelopeArgs :
          broker = { _build_event(a.event_type, "u1", a.payload, e, e) : e \in EventIds }
    /\ used = EventIds
    /\ config = [DAPR_ENABLED |-> TRUE]

----------------------------------------------------------------------------
(* Consumer handlers *)

InFlight(scope, e) ==
    \E j \in Slots : hnd[j].pc # "idle" /\ hnd[j].scope = scope /\ hnd[j].event.event_id = e

\* Deliveries of the event to the scope so far, finished or in flight.
Started(scope, e) == results[scope][e] # << >> \/ InFlight(scope, e)

\* The endpoint has read the body and built the payload object (a dataclass, which
\* checks nothing): the handler starts on it.
Accept(i, scope, event, body) ==
    /\ hnd' = [hnd EXCEPT ![i] = [pc |-> "check", scope |-> scope, event |-> event,
                                  body |-> body, next_task_data |-> {}, next_task |-> None,
                                  status |-> "success"]]
    /\ delivered' = delivered + 1
    /\ overlap' = [overlap EXCEPT ![_key(scope, event.event_id)] =
                                    @ \/ InFlight(scope, event.event_id)]

\* The broker POSTs an envelope to the route of a subscribed consumer. A topic is
\* delivered in order: an event is first delivered to a consumer after the events
\* published before it; redeliveries come at any time.
Deliver(i, scope, event) ==
    /\ hnd[i].pc = "idle"
    /\ \A j \in Slots : j < i => hnd[j].pc # "idle"
    /\ event \in broker
    /\ \A earlier \in broker :
          PublishedBefore(earlier.event_id, event.event_id) => Started(scope, earlier.event_id)
    /\ Subscribed(scope, event)
    /\ delivered < MaxDeliveries
    /\ Accept(i, scope, event, "envelope")
    /\ UNCHANGED <<statestore, broker, results, responses, audit_log, notified, sent, create_reqs,
                   writes, faults, expired, store_call, publisherVars, schedulerVars>>

\* Variant: a duplicate is answered 200 like any other result.
handle_event_200(status) ==
    CASE status = "exception" -> 500
      [] OTHER -> 200

\* The routes /api/v1/handle-event, handle-reminder and handle-completed after the
\* handler call: 204 for a duplicate, the result (200) otherwise, 500 from the
\* except clause when anything was raised.
handle_event(status) ==
    CASE status = "exception" -> 500
      [] status = "duplicate" -> 204
      [] OTHER -> 200

\* The handler returns: the slot is free again and the outcome is recorded.
Return(i, status) ==
    /\ hnd' = [hnd EXCEPT ![i] = Idle]
    /\ results' = [results EXCEPT ![hnd[i].scope][hnd[i].event.event_id] = Append(@, status)]
    /\ responses' = [responses EXCEPT ![hnd[i].scope][hnd[i].event.event_id] =
                        Append(@, [body |-> hnd[i].body, status_code |-> handle_event(status)])]

\* Variant: a duplicate delivery rewrites the marker, refreshing its time-to-live.
Check_refresh(i, mode) ==
    /\ hnd[i].pc = "check"
    /\ LET scope == hnd[i].scope
           key == _key(scope, hnd[i].event.event_id)
       IN /\ faults' = [faults EXCEPT ![key] = @ \/ mode # "ok"]
          /\ store_call' = [mode |-> mode, result |-> is_processed(StateGet(key, mode))]
          /\ IF is_processed(StateGet(key, mode))
             THEN /\ Return(i, "duplicate")
                  /\ statestore' = StatePost(key, hnd[i].event.event_id, ttl_seconds, "ok")
                  /\ writes' = [writes EXCEPT ![key] = @ + 1]
             ELSE /\ hnd' = [hnd EXCEPT ![i].pc = "effect"]
                  /\ UNCHANGED <<results, responses, statestore, writes>>
    /\ UNCHANGED <<broker, delivered, audit_log, notified, sent, create_reqs,
                   expired, overlap, publisherVars, schedulerVars>>

\* Variant: the marker is written as soon as is_processed has answered no.
Check_mark_first(i, mode) ==
    /\ hnd[i].pc = "check"
    /\ LET scope == hnd[i].scope
           key == _key(scope, hnd[i].event.event_id)
       IN /\ faults' = [faults EXCEPT ![key] = @ \/ mode # "ok"]
          /\ store_call' = [mode |-> mode, result |-> is_processed(StateGet(key, mode))]
          /\ IF is_processed(StateGet(key, mode))
             THEN /\ Return(i, "duplicate")
                  /\ UNCHANGED <<statestore, writes>>
             ELSE /\ hnd' = [hnd EXCEPT ![i].pc = "effect"]
                  /\ statestore' = StatePost(key, hnd[i].event.event_id, ttl_seconds, "ok")
                  /\ writes' = [writes EXCEPT ![key] = @ + 1]
                  /\ UNCHANGED <<results, responses>>
    /\ UNCHANGED <<broker, delivered, audit_log, notified, sent, create_reqs,
                   expired, overlap, publisherVars, schedulerVars>>

\* handle_*_event up to the answer of is_processed.
Check(i, mode) ==
    /\ hnd[i].pc = "check"
    /\ LET scope == hnd[i].scope
           key == _key(scope, hnd[i].event.event_id)
       IN /\ faults' = [faults EXCEPT ![key] = @ \/ mode # "ok"]
          /\ store_call' = [mode |-> mode, result |-> is_processed(StateGet(key, mode))]
          /\ IF is_processed(StateGet(key, mode))
             THEN Return(i, "duplicate")
             ELSE /\ hnd' = [hnd EXCEPT ![i].pc = "effect"]
                  /\ UNCHANGED <<results, responses>>
    /\ UNCHANGED <<statestore, broker, delivered, audit_log, notified, sent, create_reqs,
                   writes, expired, overlap, publisherVars, schedulerVars>>

\* Variant: a failed commit of the audit record is logged and the handler goes on.
AuditEffect_swallow(i, db) ==
    /\ hnd[i].pc = "effect"
    /\ hnd[i].scope = "audit"
    /\ audit_log' = IF db = "ok" /\ hnd[i].event.timestamp # None /\ hnd[i].event.event_id # None
                    THEN [audit_log EXCEPT ![hnd[i].event.event_id] = @ + 1]
                    ELSE audit_log
    /\ hnd' = [hnd EXCEPT ![i].pc = "mark"]
    /\ UNCHANGED <<results, responses>>
    /\ UNCHANGED <<statestore, broker, delivered, notified, sent, create_reqs,
                   writes, faults, expired, overlap, store_call, publisherVars, schedulerVars>>

\* handle_audit_event: store_audit_entry; a failed commit raises out of the handler.
\* A timestamp of None has no endswith (AttributeError), and an event_id of None
\* fails the commit, the column being NOT NULL.
AuditEffect(i, db) ==
    /\ hnd[i].pc = "effect"
    /\ hnd[i].scope = "audit"
    /\ IF db = "ok" /\ hnd[i].event.timestamp # None /\ hnd[i].event.event_id # None
       THEN /\ audit_log' = [audit_log EXCEPT ![hnd[i].event.event_id] = @ + 1]
            /\ hnd' = [hnd EXCEPT ![i].pc = "mark"]
            /\ UNCHANGED <<results, responses>>
       ELSE /\ Return(i, "exception")
            /\ UNCHANGED audit_log
    /\ UNCHANGED <<statestore, broker, delivered, notified, sent, create_reqs,
                   writes, faults, expired, overlap, store_call, publisherVars, schedulerVars>>

\* Variant: every reminder event notifies the user.
ReminderEffect_always(i) ==
    /\ hnd[i].pc = "effect"
    /\ hnd[i].scope = "notification"
    /\ LET e == hnd[i].event.event_id IN
       /\ notified' = [notified EXCEPT ![e] = @ + 1]
       /\ sent' = [sent EXCEPT ![e] = @ + 1]
    /\ hnd' = [hnd EXCEPT ![i].pc = "mark"]
    /\ UNCHANGED <<statestore, broker, delivered, results, responses, audit_log, create_reqs,
                   writes, faults, expired, overlap, store_call, publisherVars, schedulerVars>>

\* handle_reminder_event: the stubbed notification, user-facing for reminder.triggered.
ReminderEffect(i) ==
    /\ hnd[i].pc = "effect"
    /\ hnd[i].scope = "notification"
    /\ LET e == hnd[i].event.event_id IN
       /\ notified' = [notified EXCEPT ![e] = @ + 1]
       /\ sent' = [sent EXCEPT ![e] =
                      IF hnd[i].event.event_type = "reminder.triggered" THEN @ + 1 ELSE @]
    /\ hnd' = [hnd EXCEPT ![i].pc = "mark"]
    /\ UNCHANGED <<statestore, broker, delivered, results, responses, audit_log, create_reqs,
                   writes, faults, expired, overlap, store_call, publisherVars, schedulerVars>>

\* next_task_data: the body of the POST to chat-api /api/tasks.
next_task_data_of(payload, next_due_date) ==
    [due_date |-> next_due_date, is_recurring |-> TRUE,
     recurrence_rule |-> payload.recurrence_rule]

\* Variant: an event whose next due date cannot be calculated is answered with
\* status error.
handle_task_completed_event_strict(i, response) ==
    /\ hnd[i].pc = "effect"
    /\ hnd[i].scope = "recurring"
    /\ LET p == hnd[i].event.payload
           next_due_date == calculate_next_due_date(p.due_date, p.recurrence_rule)
       IN IF ~p.is_recurring
          THEN /\ hnd' = [hnd EXCEPT ![i].pc = "mark"]
               /\ UNCHANGED create_reqs
          ELSE IF next_due_date = NoDate
          THEN /\ hnd' = [hnd EXCEPT ![i].pc = "mark", ![i].status = "error"]
               /\ UNCHANGED create_reqs
          ELSE LET next_task == create_task_via_dapr(response) IN
               /\ create_reqs' = [create_reqs EXCEPT ![hnd[i].event.event_id] = @ + 1]
               /\ hnd' = [hnd EXCEPT ![i].pc = "mark", ![i].next_task = next_task,
                                     ![i].next_task_data = {next_task_data_of(p, next_due_date)},
                                     ![i].status = IF next_task # None THEN "success"
                                                   ELSE "error"]
    /\ UNCHANGED <<statestore, broker, delivered, results, responses, audit_log, notified, sent,
                   writes, faults, expired, overlap, store_call, publisherVars>>

\* handle_task_completed_event from the recurring check to the answer of
\* create_task_via_dapr.
handle_task_completed_event(i, response) ==
    /\ hnd[i].pc = "effect"
    /\ hnd[i].scope = "recurring"
    /\ LET p == hnd[i].event.payload
           next_due_date == calculate_next_due_date(p.due_date, p.recurrence_rule)
       IN IF ~p.is_recurring \/ next_due_date = NoDate
          THEN /\ hnd' = [hnd EXCEPT ![i].pc = "mark"]
               /\ UNCHANGED create_reqs
          ELSE LET next_task == create_task_via_dapr(response) IN
               /\ create_reqs' = [create_reqs EXCEPT ![hnd[i].event.event_id] = @ + 1]
               /\ hnd' = [hnd EXCEPT ![i].pc = "mark", ![i].next_task = next_task,
                                     ![i].next_task_data = {next_task_data_of(p, next_due_date)},
                                     ![i].status = IF next_task # None THEN "success"
                                                   ELSE "error"]
    /\ UNCHANGED <<statestore, broker, delivered, results, responses, audit_log, notified, sent,
                   writes, faults, expired, overlap, store_call, publisherVars>>

\* The same with chat-api as the environment: any answer, and nothing of chat-api
\* changes.
CompletedEffect(i, response) ==
    /\ handle_task_completed_event(i, response)
    /\ UNCHANGED schedulerVars

\* Variant: a failed marker write raises out of the handler.
Mark_strict(i, mode) ==
    /\ hnd[i].pc = "mark"
    /\ LET key == _key(hnd[i].scope, hnd[i].event.event_id) IN
       /\ faults' = [faults EXCEPT ![key] = @ \/ mode # "ok"]
       /\ store_call' = [mode |-> mode, result |-> mark_processed(StatePostStatus(mode))]
       /\ statestore' = StatePost(key, hnd[i].event.event_id, ttl_seconds, mode)
       /\ writes' = [writes EXCEPT ![key] = IF mode = "ok" THEN @ + 1 ELSE @]
    /\ Return(i, IF mode = "ok" THEN hnd[i].status ELSE "exception")
    /\ UNCHANGED <<broker, delivered, audit_log, notified, sent, create_reqs,
                   expired, overlap, publisherVars, schedulerVars>>

\* Variant: the marker is written only when the effect succeeded.
Mark_on_success(i, mode) ==
    /\ hnd[i].pc = "mark"
    /\ LET key == _key(hnd[i].scope, hnd[i].event.event_id)
           m == IF hnd[i].status = "success" THEN mode ELSE "skipped"
       IN
       /\ faults' = [faults EXCEPT ![key] = @ \/ mode # "ok"]
       /\ store_call' = [mode |-> mode, result |-> mark_processed(StatePostStatus(mode))]
       /\ statestore' = StatePost(key, hnd[i].event.event_id, ttl_seconds, m)
       /\ writes' = [writes EXCEPT ![key] = IF m = "ok" THEN @ + 1 ELSE @]
    /\ Return(i, hnd[i].status)
    /\ UNCHANGED <<broker, delivered, audit_log, notified, sent, create_reqs,
                   expired, overlap, publisherVars, schedulerVars>>

\* The rest of the handler: mark_processed, whose result is ignored, and the return.
Mark(i, mode) ==
    /\ hnd[i].pc = "mark"
    /\ LET key == _key(hnd[i].scope, hnd[i].event.event_id) IN
       /\ faults' = [faults EXCEPT ![key] = @ \/ mode # "ok"]
       /\ store_call' = [mode |-> mode, result |-> mark_processed(StatePostStatus(mode))]
       /\ statestore' = StatePost(key, hnd[i].event.event_id, ttl_seconds, mode)
       /\ writes' = [writes EXCEPT ![key] = IF mode = "ok" THEN @ + 1 ELSE @]
    /\ Return(i, hnd[i].status)
    /\ UNCHANGED <<broker, delivered, audit_log, notified, sent, create_reqs,
                   expired, overlap, publisherVars, schedulerVars>>

\* The store drops a marker whose ttlInSeconds has run out.
Expire(key) ==
    /\ statestore[key] # NoValue
    /\ statestore' = [statestore EXCEPT ![key] = NoValue]
    /\ expired' = [expired EXCEPT ![key] = TRUE]
    /\ UNCHANGED <<broker, hnd, delivered, results, responses, audit_log, notified, sent, create_reqs,
                   writes, faults, overlap, store_call, publisherVars, schedulerVars>>

ConsumerNext ==
    \/ \E i \in Slots, s \in Scopes, event \in broker : Deliver(i, s, event)
    \/ \E i \in Slots, mode \in StoreModes : Check(i, mode)
    \/ \E i \in Slots, db \in {"ok", "fail"} : AuditEffect(i, db)
    \/ \E i \in Slots : ReminderEffect(i)
    \/ \E i \in Slots, r \in InvokeResponses : CompletedEffect(i, r)
    \/ \E i \in Slots, mode \in StoreModes : Mark(i, mode)
    \/ \E key \in Keys : Expire(key)

\* The three consumers with deliveries made one at a time: redeliveries, failing
\* store calls and markers that run out.
RedeliveryNext ==
    \/ \E i \in {1}, s \in Scopes, event \in broker : Deliver(i, s, event)
    \/ \E i \in {1}, mode \in StoreModes : Check(i, mode)
    \/ \E i \in {1}, db \in {"ok", "fail"} : AuditEffect(i, db)
    \/ \E i \in {1} : ReminderEffect(i)
    \/ \E i \in {1}, r \in InvokeResponses : CompletedEffect(i, r)
    \/ \E i \in {1}, mode \in StoreModes : Mark(i, mode)
    \/ \E key \in Keys : Expire(key)

SpecRedelivery == Init /\ [][RedeliveryNext]_vars

----------------------------------------------------------------------------
(* Consumer endpoints and the bodies they are sent *)

\* The envelope fields a consumer reads without a default.
RequiredFields == {"event_id", "timestamp"}

\* body.get(field) of a body that lacks the field.
Without(event, field) ==
    IF field = "event_id" THEN [event EXCEPT !.event_id = None]
    ELSE [event EXCEPT !.timestamp = None]

\* A body with a required field missing reaches a route: body.get returns None
\* for it, the payload object is built all the same and the handler is called.
DeliverMalformed(i, scope, event, field) ==
    /\ hnd[i].pc = "idle"
    /\ \A j \in Slots : j < i => hnd[j].pc # "idle"
    /\ event \in broker
    /\ Subscribed(scope, event)
    /\ delivered < MaxDeliveries
    /\ Accept(i, scope, Without(event, field), "no_" \o field)
    /\ UNCHANGED <<statestore, broker, results, responses, audit_log, notified, sent,
                   create_reqs, writes, faults, expired, store_call, publisherVars, schedulerVars>>

\* A body that is not JSON reaches a route: request.json() raises inside the try
\* block and the except clause answers.
DeliverUnparseable(scope) ==
    /\ delivered < MaxDeliveries
    /\ delivered' = delivered + 1
    /\ results' = [results EXCEPT ![scope][None] = Append(@, "exception")]
    /\ responses' = [responses EXCEPT ![scope][None] =
                        Append(@, [body |-> "not_json",
                                   status_code |-> handle_event("exception")])]
    /\ UNCHANGED <<statestore, broker, hnd, audit_log, notified, sent, create_reqs,
                   writes, faults, expired, overlap, store_call, publisherVars, schedulerVars>>

\* The deliveries of this specification come one at a time.
EndpointNext ==
    \/ \E i \in {1}, s \in Scopes, event \in broker : Deliver(i, s, event)
    \/ \E i \in {1}, s \in Scopes, event \in broker, field \in RequiredFields :
          DeliverMalformed(i, s, event, field)
    \/ \E s \in Scopes : DeliverUnparseable(s)
    \/ \E i \in {1}, mode \in StoreModes : Check(i, mode)
    \/ \E i \in {1}, db \in {"ok", "fail"} : AuditEffect(i, db)
    \/ \E i \in {1} : ReminderEffect(i)
    \/ \E i \in {1}, r \in InvokeResponses : CompletedEffect(i, r)
    \/ \E i \in {1}, mode \in StoreModes : Mark(i, mode)

\* One event is in the broker; foreign or damaged bodies may reach the routes too.
EndpointInit ==
    /\ ConsumerInit
    /\ PublisherInit
    /\ SchedulerInit
    /\ \E a \in EnvelopeArgs : broker = { _build_event(a.event_type, "u1", a.payload, "e1", "e1") }
    /\ used = {"e1"}
    /\ config = [DAPR_ENABLED |-> TRUE]

SpecEndpoint == EndpointInit /\ [][EndpointNext]_vars

----------------------------------------------------------------------------
(* publish_event *)

\* What callers pass as event_id: nothing, an empty string, or an id of their own.
EventIdArgs == {None, ""} \cup EventIds

PublishArgs ==
    { [topic |-> TopicOf(a.event_type), event_type |-> a.event_type, payload |-> a.payload] :
        a \in { b \in EnvelopeArgs : b.event_type = "reminder.triggered"
                                     \/ b.payload.recurrence_rule = "DAILY" } }

\* Variant: the sidecar is called whatever DAPR_ENABLED says.
publish_event_always(topic, event_type, user_id, payload, event_id, uuid4) ==
    LET event == _build_event(event_type, user_id, payload, event_id, uuid4) IN
    /\ pub' = [pc |-> "post", topic |-> topic, event |-> event, event_id |-> event_id,
               attempt |-> 1, sleeps |-> << >>]
    /\ posts' = << >>
    /\ used' = used \cup {event.event_id}

\* publish_event up to its first POST: the envelope is built once, and local mode returns it.
publish_event(topic, event_type, user_id, payload, event_id, uuid4) ==
    LET event == _build_event(event_type, user_id, payload, event_id, uuid4) IN
    /\ pub' = [pc |-> IF config.DAPR_ENABLED THEN "post" ELSE "returned",
               topic |-> topic, event |-> event, event_id |-> event_id,
               attempt |-> 1, sleeps |-> << >>]
    /\ posts' = << >>
    /\ used' = used \cup {event.event_id}

\* A caller of chat-api publishes an event.
CallPublish(a, event_id, uuid4) ==
    /\ pub.pc \in {"idle", "returned", "raised"}
    /\ Fresh(uuid4)
    /\ publish_event(a.topic, a.event_type, "u1", a.payload, event_id, uuid4)
    /\ UNCHANGED <<schedulerVars, consumerVars, broker, config, callbacks>>

\* Variant: when the attempts are used up the envelope is returned all the same.
Post_swallow(response) ==
    /\ pub.pc = "post"
    /\ posts' = Append(posts, [event_id |-> pub.event.event_id, response |-> response])
    /\ broker' = IF ~response.raised /\ response.status_code \in 200..299
                 THEN broker \cup {pub.event} ELSE broker
    /\ IF ~response.raised /\ PublishSucceeded(response)
       THEN pub' = [pub EXCEPT !.pc = "returned"]
       ELSE IF pub.attempt < MAX_RETRIES
            THEN pub' = [pub EXCEPT !.attempt = @ + 1,
                                    !.sleeps = Append(@, Backoff(pub.attempt))]
            ELSE pub' = [pub EXCEPT !.pc = "returned"]
    /\ UNCHANGED <<schedulerVars, consumerVars, config, used, callbacks>>

\* One pass of the retry loop: the POST, its answer, and the sleep before the next pass.
Post(response) ==
    /\ pub.pc = "post"
    /\ posts' = Append(posts, [event_id |-> pub.event.event_id, response |-> response])
    /\ broker' = IF ~response.raised /\ response.status_code \in 200..299
                 THEN broker \cup {pub.event} ELSE broker
    /\ IF ~response.raised /\ PublishSucceeded(response)
       THEN pub' = [pub EXCEPT !.pc = "returned"]
       ELSE IF pub.attempt < MAX_RETRIES
            THEN pub' = [pub EXCEPT !.attempt = @ + 1,
                                    !.sleeps = Append(@, Backoff(pub.attempt))]
            ELSE pub' = [pub EXCEPT !.pc = "raised"]
    /\ UNCHANGED <<schedulerVars, consumerVars, config, used, callbacks>>

PublisherNext ==
    \/ \E a \in PublishArgs, event_id \in EventIdArgs, uuid4 \in EventIds :
          CallPublish(a, event_id, uuid4)
    \/ \E response \in PublishResponses : Post(response)

PublishInit ==
    /\ ConsumerInit
    /\ PublisherInit
    /\ SchedulerInit
    /\ broker = {}
    /\ used = {}
    /\ config \in [DAPR_ENABLED : BOOLEAN]

SpecPublish == PublishInit /\ [][PublisherNext]_vars

----------------------------------------------------------------------------
(* Reminder job callback (chat-api routers/callbacks.py) *)

MaxCallbacks == 2       \* invocations of the callback route for one job

\* publish_reminder_event: the reminders topic, and no event_id passed on.
publish_reminder_event(user_id, data, event_type, uuid4) ==
    publish_event("reminders", event_type, user_id, data, None, uuid4)

\* Variant: the event type is left to the default of publish_reminder_event.
handle_reminder_callback_default(job, uuid4) ==
    /\ callbacks[job] < MaxCallbacks
    /\ pub.pc \in {"idle", "returned", "raised"}
    /\ Fresh(uuid4)
    /\ callbacks' = [callbacks EXCEPT ![job] = @ + 1]
    /\ publish_reminder_event("u1", JobData(job), "reminder.scheduled", uuid4)
    /\ UNCHANGED <<schedulerVars, consumerVars, broker, config>>

\* handle_reminder_callback with the background task it registers.
handle_reminder_callback(job, uuid4) ==
    /\ callbacks[job] < MaxCallbacks
    /\ pub.pc \in {"idle", "returned", "raised"}
    /\ Fresh(uuid4)
    /\ callbacks' = [callbacks EXCEPT ![job] = @ + 1]
    /\ publish_reminder_event("u1", JobData(job), "reminder.triggered", uuid4)
    /\ UNCHANGED <<schedulerVars, consumerVars, broker, config>>

\* What a healthy or failing sidecar answers: published, refused, or no answer at all.
SidecarResponses == {Response(204, ""), Response(500, ""), RequestError}

ReminderNext ==
    \/ \E job \in Jobs, uuid4 \in EventIds : handle_reminder_callback(job, uuid4)
    \/ \E response \in SidecarResponses : Post(response)
    \/ \E i \in Slots, event \in broker : Deliver(i, "notification", event)
    \/ \E i \in Slots, mode \in StoreModes : Check(i, mode)
    \/ \E i \in Slots : ReminderEffect(i)
    \/ \E i \in Slots, mode \in StoreModes : Mark(i, mode)
    \/ \E key \in Keys : Expire(key)

ReminderInit ==
    /\ ConsumerInit
    /\ PublisherInit
    /\ SchedulerInit
    /\ broker = {}
    /\ used = {}
    /\ config = [DAPR_ENABLED |-> TRUE]

SpecReminder == ReminderInit /\ [][ReminderNext]_vars

----------------------------------------------------------------------------
(* Reminder scheduling (chat-api services/reminder.py, routers/tasks.py) *)

\* One registered background task: the function and the arguments it is called with.
BackgroundTask(fn, task_id, due_date, remind_at) ==
    [fn |-> fn, task_id |-> task_id, due_date |-> due_date, remind_at |-> remind_at]

\* A request to the sidecar and its answer, as the run of the background tasks
\* logs them.
Sent(method, name, schedule_time, response) ==
    [method |-> method, name |-> name, schedule |-> schedule_time, response |-> response]

\* schedule_reminder_job on the current state: the jobs afterwards, the requests
\* sent and the value returned.
schedule_reminder_job(task, mode) ==
    IF is_reminder_in_past(task.remind_at)
    THEN [jobs |-> jobs, sent |-> << >>, value |-> FALSE]
    ELSE LET job_name == _build_job_name(task.task_id) IN
         [jobs |-> JobPost(job_name, task.remind_at, [task_id |-> task.task_id], mode),
          sent |-> << Sent("POST", job_name, task.remind_at, JobPostStatus(mode)) >>,
          value |-> schedule_job(JobPostStatus(mode))]

\* cancel_reminder_job on the current state.
cancel_reminder_job(task, mode) ==
    LET job_name == _build_job_name(task.task_id) IN
    [jobs |-> JobDelete(job_name, mode),
     sent |-> << Sent("DELETE", job_name, NoDate, JobDeleteStatus(job_name, mode)) >>,
     value |-> cancel_job(JobDeleteStatus(job_name, mode))]

\* The background task of request c that is running or comes next.
Current(c) == calls[c].queue[calls[c].at]

\* Request c is running one of the functions fns, at position pc of it.
Running(c, fns, pc) ==
    /\ calls[c].pc = pc
    /\ Current(c).fn \in fns

\* The running background task is over: the next one starts, if any.
Proceed(c, reqs) ==
    [calls[c] EXCEPT !.at = @ + 1,
                     !.pc = IF calls[c].at = Len(calls[c].queue) THEN "done" ELSE "start",
                     !.log = @ \o reqs]

\* The running background task has returned value.
Returned(c, reqs, value) ==
    [Proceed(c, reqs) EXCEPT !.returns = Append(@, [fn |-> Current(c).fn, value |-> value])]

\* What a route answers: the status code and the rows it returns. A direct call
\* of a function has no answer ({}).
Answer(status_code, task_id, task, next_task) ==
    { [status_code |-> status_code, task_id |-> task_id, task |-> task,
       next_task |-> next_task] }

\* A request starts the run of its background tasks; its answer is fixed.
Begin(c, origin, response, queue) ==
    /\ calls[c].pc \in {"idle", "done"}
    /\ \A b \in Requests :
          \/ calls[b].pc \notin {"idle", "done"}
          \/ calls[b].pc = calls[c].pc /\ c <= b
          \/ calls[b].pc = "done" /\ calls[c].pc = "idle"
    /\ started < MaxRequests
    /\ started' = started + 1
    /\ calls' = [calls EXCEPT ![c] = [pc |-> "start", origin |-> origin,
                                      response |-> response, queue |-> queue,
                                      at |-> 1, log |-> << >>, returns |-> << >>,
                                      raised |-> FALSE]]

\* A background task schedule_reminder_job runs.
RunSchedule(c, mode) ==
    /\ Running(c, {"schedule_reminder_job"}, "start")
    /\ LET r == schedule_reminder_job(Current(c), mode) IN
       /\ jobs' = r.jobs
       /\ calls' = [calls EXCEPT ![c] = Returned(c, r.sent, r.value)]
    /\ UNCHANGED <<consumerVars, publisherVars, broker, now, tasks, started>>

\* A background task cancel_reminder_job runs.
RunCancel(c, mode) ==
    /\ Running(c, {"cancel_reminder_job"}, "start")
    /\ LET r == cancel_reminder_job(Current(c), mode) IN
       /\ jobs' = r.jobs
       /\ calls' = [calls EXCEPT ![c] = Returned(c, r.sent, r.value)]
    /\ UNCHANGED <<consumerVars, publisherVars, broker, now, tasks, started>>

\* Variant: the old job is not cancelled when a new time is given.
RescheduleCancel_skipped(c, mode) ==
    /\ Running(c, {"reschedule_reminder_job"}, "start")
    /\ LET task == Current(c)
           r == cancel_reminder_job(task, mode)
       IN IF task.remind_at # NoDate
          THEN /\ jobs' = jobs
               /\ calls' = [calls EXCEPT ![c].pc = "cancelled"]
          ELSE /\ jobs' = r.jobs
               /\ calls' = [calls EXCEPT ![c] = Returned(c, r.sent, TRUE)]
    /\ UNCHANGED <<consumerVars, publisherVars, broker, now, tasks, started>>

\* reschedule_reminder_job up to the answer of its cancel_reminder_job, whose
\* result it drops; with no remind_at it returns True here.
RescheduleCancel(c, mode) ==
    /\ Running(c, {"reschedule_reminder_job"}, "start")
    /\ LET task == Current(c)
           r == cancel_reminder_job(task, mode)
       IN /\ jobs' = r.jobs
          /\ calls' = [calls EXCEPT ![c] =
                          IF task.remind_at # NoDate
                          THEN [calls[c] EXCEPT !.pc = "cancelled", !.log = @ \o r.sent]
                          ELSE Returned(c, r.sent, TRUE)]
    /\ UNCHANGED <<consumerVars, publisherVars, broker, now, tasks, started>>

\* The rest of reschedule_reminder_job: schedule_reminder_job and its result.
RescheduleSchedule(c, mode) ==
    /\ Running(c, {"reschedule_reminder_job"}, "cancelled")
    /\ LET r == schedule_reminder_job(Current(c), mode) IN
       /\ jobs' = r.jobs
       /\ calls' = [calls EXCEPT ![c] = Returned(c, r.sent, r.value)]
    /\ UNCHANGED <<consumerVars, publisherVars, broker, now, tasks, started>>

\* Variant: a publish that fails takes the task change back.
RunPublish_rollback(c, outcome) ==
    /\ Running(c, {"_publish_task_event_background", "publish_reminder_event"}, "start")
    /\ LET task == Current(c)
           reqs == IF outcome = "returned"
                   THEN << Sent("PUBLISH", task.fn, task.remind_at, Response(204, "")) >>
                   ELSE << >>
       IN /\ calls' = [calls EXCEPT ![c] =
                         IF outcome = "raised" /\ task.fn = "publish_reminder_event"
                         THEN [calls[c] EXCEPT !.pc = "done", !.raised = TRUE]
                         ELSE Proceed(c, reqs)]
          /\ tasks' = IF outcome = "raised"
                      THEN [tasks EXCEPT ![task.task_id] = NoTask]
                      ELSE tasks
    /\ UNCHANGED <<consumerVars, publisherVars, broker, now, jobs, started>>

\* A background publish runs, publish_event taken as a whole: it returns the
\* envelope or raises EventPublishError. _publish_task_event_background catches
\* the exception; raised by publish_reminder_event it ends the run of the
\* background tasks, which are awaited one after another.
RunPublish(c, outcome) ==
    /\ Running(c, {"_publish_task_event_background", "publish_reminder_event"}, "start")
    /\ LET task == Current(c)
           reqs == IF outcome = "returned"
                   THEN << Sent("PUBLISH", task.fn, task.remind_at, Response(204, "")) >>
                   ELSE << >>
       IN calls' = [calls EXCEPT ![c] =
                      IF outcome = "raised" /\ task.fn = "publish_reminder_event"
                      THEN [calls[c] EXCEPT !.pc = "done", !.raised = TRUE]
                      ELSE Proceed(c, reqs)]
    /\ UNCHANGED <<consumerVars, publisherVars, broker, now, tasks, jobs, started>>

\* The functions of services/reminder.py that talk to the scheduler.
SchedulerFunctions ==
    {"schedule_reminder_job", "cancel_reminder_job", "reschedule_reminder_job"}

\* A caller awaits one of the scheduler functions.
CallScheduler(c, fn, task_id, due_date, remind_at) ==
    /\ fn = "schedule_reminder_job" => remind_at # NoDate
    /\ \A b \in Requests : calls[b].pc \in {"idle", "done"}
    /\ Begin(c, "call", {}, << BackgroundTask(fn, task_id, due_date, remind_at) >>)
    /\ UNCHANGED <<consumerVars, publisherVars, broker, now, tasks, jobs>>

\* POST /api/tasks: the task is stored with its remind_at and the background
\* tasks are registered.
create_task(c, task_id, due_date, reminder_offset_minutes) ==
    /\ ~tasks[task_id].exists
    /\ ~(reminder_offset_minutes # {} /\ due_date = NoDate)
    /\ LET remind_at == calculate_remind_at(due_date, reminder_offset_minutes)
           task == [NoTask EXCEPT !.exists = TRUE, !.due_date = due_date,
                                  !.reminder_offset_minutes = reminder_offset_minutes,
                                  !.remind_at = remind_at]
       IN
       /\ tasks' = [tasks EXCEPT ![task_id] = task]
       /\ Begin(c, "create_task", Answer(201, task_id, task, NoTask),
                << BackgroundTask("_publish_task_event_background", task_id, due_date, remind_at) >>
                \o IF remind_at # NoDate /\ due_date # NoDate
                   THEN << BackgroundTask("publish_reminder_event", task_id, due_date, remind_at),
                           BackgroundTask("schedule_reminder_job", task_id, due_date, remind_at) >>
                   ELSE << >>)
    /\ UNCHANGED <<consumerVars, publisherVars, broker, now, jobs>>

\* PUT /api/tasks/<id>: remind_at is recalculated; the job is rescheduled, or
\* cancelled when the task has no reminder any more.
update_task(c, task_id, due_date, reminder_offset_minutes) ==
    /\ tasks[task_id].exists
    /\ ~(reminder_offset_minutes # {} /\ due_date = NoDate)
    /\ LET remind_at == calculate_remind_at(due_date, reminder_offset_minutes)
           task == [NoTask EXCEPT !.exists = TRUE, !.due_date = due_date,
                                  !.reminder_offset_minutes = reminder_offset_minutes,
                                  !.remind_at = remind_at]
       IN
       /\ tasks' = [tasks EXCEPT ![task_id] = task]
       /\ Begin(c, "update_task", Answer(200, task_id, task, NoTask),
                << BackgroundTask("_publish_task_event_background", task_id, due_date, remind_at) >>
                \o IF remind_at # NoDate /\ due_date # NoDate
                   THEN << BackgroundTask("publish_reminder_event", task_id, due_date, remind_at),
                           BackgroundTask("reschedule_reminder_job", task_id, due_date, remind_at) >>
                   ELSE << BackgroundTask("cancel_reminder_job", task_id, NoDate, NoDate) >>)
    /\ UNCHANGED <<consumerVars, publisherVars, broker, now, jobs>>

\* DELETE /api/tasks/<id>: the row is deleted; the job is cancelled in the background.
delete_task(c, task_id) ==
    /\ tasks[task_id].exists
    /\ tasks' = [tasks EXCEPT ![task_id] = NoTask]
    /\ Begin(c, "delete_task", Answer(204, task_id, NoTask, NoTask),
             << BackgroundTask("cancel_reminder_job", task_id, NoDate, NoDate),
                BackgroundTask("_publish_task_event_background", task_id, NoDate, NoDate) >>)
    /\ UNCHANGED <<consumerVars, publisherVars, broker, now, jobs>>

\* Time passes.
Tick ==
    /\ now < MaxTime
    /\ now' = now + 1
    /\ UNCHANGED <<consumerVars, publisherVars, broker, tasks, jobs, calls, started>>

\* The scheduler fires a job whose time has come: it POSTs the job's data to the
\* callback route and drops the job.
Fire(job) ==
    /\ job \in jobs
    /\ \A at \in job.schedule : at <= now
    /\ jobs' = jobs \ {job}
    /\ UNCHANGED <<consumerVars, publisherVars, broker, now, tasks, calls, started>>

\* The scheduler functions called one at a time, with any arguments.
SchedulerCallsNext ==
    \/ \E c \in Requests, fn \in SchedulerFunctions, task_id \in TaskIds, remind_at \in RemindTimes :
          CallScheduler(c, fn, task_id, {3}, remind_at)
    \/ \E c \in Requests, mode \in SchedulerModes : RunSchedule(c, mode)
    \/ \E c \in Requests, mode \in SchedulerModes : RunCancel(c, mode)
    \/ \E c \in Requests, mode \in SchedulerModes : RescheduleCancel(c, mode)
    \/ \E c \in Requests, mode \in SchedulerModes : RescheduleSchedule(c, mode)
    \/ Tick
    \/ \E job \in jobs : Fire(job)

\* The routes of routers/tasks.py with their background tasks, two requests at a time.
SchedulerNext ==
    \/ \E c \in Requests, task_id \in TaskIds, due_date \in DueDates, offset \in Offsets :
          create_task(c, task_id, due_date, offset)
    \/ \E c \in Requests, task_id \in TaskIds, due_date \in DueDates, offset \in Offsets :
          update_task(c, task_id, due_date, offset)
    \/ \E c \in Requests, task_id \in TaskIds : delete_task(c, task_id)
    \/ \E c \in Requests, mode \in SchedulerModes : RunSchedule(c, mode)
    \/ \E c \in Requests, mode \in SchedulerModes : RunCancel(c, mode)
    \/ \E c \in Requests, mode \in SchedulerModes : RescheduleCancel(c, mode)
    \/ \E c \in Requests, mode \in SchedulerModes : RescheduleSchedule(c, mode)
    \/ \E c \in Requests, outcome \in {"returned", "raised"} : RunPublish(c, outcome)
    \/ Tick
    \/ \E job \in jobs : Fire(job)

SchedulerSpecInit ==
    /\ ConsumerInit
    /\ PublisherInit
    /\ SchedulerInit
    /\ broker = {}
    /\ used = {}
    /\ config = [DAPR_ENABLED |-> TRUE]

SpecScheduler == SchedulerSpecInit /\ [][SchedulerNext]_vars

\* The scheduler functions are called on any scheduler state: with no job, or
\* with a job a request made earlier.
SchedulerCallsInit ==
    /\ ConsumerInit
    /\ PublisherInit
    /\ now = 1
    /\ tasks = [t \in TaskIds |-> NoTask]
    /\ jobs \in { {}, {[name |-> _build_job_name("t1"), schedule |-> {2},
                         data |-> [task_id |-> "t1"]]} }
    /\ calls = [c \in Requests |-> Idle]
    /\ started = 0
    /\ broker = {}
    /\ used = {}
    /\ config = [DAPR_ENABLED |-> TRUE]

SpecSchedulerCalls == SchedulerCallsInit /\ [][SchedulerCallsNext]_vars

\* The state a create_task request leaves once its background tasks are over: task
\* t1 is stored with a reminder, the scheduler holds its job, no request is in
\* progress.
StoredInit ==
    /\ ConsumerInit
    /\ PublisherInit
    /\ now = 1
    /\ \E due_date \in DueDates \ {NoDate}, offset \in Offsets \ {{}} :
          LET remind_at == calculate_remind_at(due_date, offset) IN
          /\ tasks = [t \in TaskIds |->
                        IF t = "t1"
                        THEN [NoTask EXCEPT !.exists = TRUE, !.due_date = due_date,
                                            !.reminder_offset_minutes = offset,
                                            !.remind_at = remind_at]
                        ELSE NoTask]
          /\ jobs = { [name |-> _build_job_name("t1"), schedule |-> remind_at,
                       data |-> [task_id |-> "t1"]] }
    /\ calls = [c \in Requests |-> Idle]
    /\ started = 0
    /\ broker = {}
    /\ used = {}
    /\ config = [DAPR_ENABLED |-> TRUE]

\* The routes on a task stored earlier.
SpecStored == StoredInit /\ [][SchedulerNext]_vars

----------------------------------------------------------------------------
(* Recurrence rules of the producer (backend services/recurring.py,
   schemas/task.py) *)

\* Dates are day numbers: day 1 is 2023-01-01. The time of day is carried over
\* unchanged by every operation below and is left out.
IsLeap(year) == (year % 4 = 0 /\ year % 100 # 0) \/ year % 400 = 0

DaysInMonth(year, month) ==
    CASE month = 2 -> IF IsLeap(year) THEN 29 ELSE 28
      [] month \in {4, 6, 9, 11} -> 30
      [] OTHER -> 31

RECURSIVE DaysBeforeYear(_)
DaysBeforeYear(year) ==
    IF year <= 2023 THEN 0
    ELSE DaysBeforeYear(year - 1) + (IF IsLeap(year - 1) THEN 366 ELSE 365)

RECURSIVE DaysBeforeMonth(_, _)
DaysBeforeMonth(year, month) ==
    IF month = 1 THEN 0
    ELSE DaysBeforeMonth(year, month - 1) + DaysInMonth(year, month - 1)

\* datetime(year, month, day) as a day number, and back.
datetime(year, month, day) == DaysBeforeYear(year) + DaysBeforeMonth(year, month) + day

Civil(d) ==
    LET year == CHOOSE y \in 2023..2040 :
                    DaysBeforeYear(y) < d /\ d <= DaysBeforeYear(y + 1)
        rest == d - DaysBeforeYear(year)
        month == CHOOSE m \in 1..12 :
                    /\ DaysBeforeMonth(year, m) < rest
                    /\ rest <= DaysBeforeMonth(year, m) + DaysInMonth(year, m)
    IN [year |-> year, month |-> month, day |-> rest - DaysBeforeMonth(year, month)]

Min(a, b) == IF a <= b THEN a ELSE b

\* Variant: a month counts 30 days and a year 365.
relativedelta_fixed(d, years, months) == d + 365 * years + 30 * months

\* d + relativedelta(years=, months=): the month and the year move, the day of
\* the month stays, cut down to the last day of the month reached.
relativedelta(d, years, months) ==
    LET c == Civil(d)
        total == (c.month - 1) + months
        year == c.year + years + (total \div 12)
        month == (total % 12) + 1
    IN datetime(year, month, Min(c.day, DaysInMonth(year, month)))

\* What parse_recurrence_rule returns; ValueError stands for the raise.
Parsed(type, interval, unit) == [type |-> type, interval |-> interval, unit |-> unit]
ValueError == Parsed("ValueError", 0, "")

\* Variant: the rule is compared as it was typed.
parse_recurrence_rule_exact(rule) ==
    IF rule = None THEN ValueError
    ELSE LET text == Chars(rule) IN
         IF text = Chars("DAILY") THEN Parsed("DAILY", 1, "days")
         ELSE IF text = Chars("WEEKLY") THEN Parsed("WEEKLY", 7, "days")
         ELSE IF text = Chars("MONTHLY") THEN Parsed("MONTHLY", 1, "months")
         ELSE IF text = Chars("YEARLY") THEN Parsed("YEARLY", 1, "years")
         ELSE ValueError

\* The body of parse_recurrence_rule for a string.
parse_text(rule) ==
    IF Len(Chars(rule)) = 0 THEN ValueError
    ELSE LET text == strip(upper(Chars(rule))) IN
         IF text = Chars("DAILY") THEN Parsed("DAILY", 1, "days")
         ELSE IF text = Chars("WEEKLY") THEN Parsed("WEEKLY", 7, "days")
         ELSE IF text = Chars("MONTHLY") THEN Parsed("MONTHLY", 1, "months")
         ELSE IF text = Chars("YEARLY") THEN Parsed("YEARLY", 1, "years")
         ELSE IF startswith(text, Chars("INTERVAL:"))
              THEN LET n == int(split(text, ":")[2]) IN
                   IF n = {} THEN ValueError
                   ELSE IF \E interval \in n : interval < 1 THEN ValueError
                   ELSE Parsed("INTERVAL", CHOOSE interval \in n : TRUE, "days")
         ELSE ValueError

\* parse_text, computed once for every string of the model.
ParseText == [rule \in DOMAIN CharTable |-> parse_text(rule)]

parse_recurrence_rule(rule) == IF rule = None THEN ValueError ELSE ParseText[rule]

\* What a call of calculate_next_due_date gives: a date or None, or a raise.
Result(value) == [raised |-> FALSE, value |-> value]
RaisedValueError == [raised |-> TRUE, value |-> NoDate]

\* Variant: the rule is parsed before the due date is looked at.
next_due_date_of_parsing_first(current_due_date, recurrence_rule) ==
    LET parsed == parse_recurrence_rule(recurrence_rule) IN
    IF parsed = ValueError THEN RaisedValueError
    ELSE IF current_due_date = NoDate THEN Result(NoDate)
    ELSE IF parsed.unit = "months"
         THEN Result({ relativedelta(d, 0, parsed.interval) : d \in current_due_date })
    ELSE IF parsed.unit = "years"
         THEN Result({ relativedelta(d, parsed.interval, 0) : d \in current_due_date })
    ELSE Result({ d + parsed.interval : d \in current_due_date })

\* calculate_next_due_date of the producer (services/recurring.py).
next_due_date_of(current_due_date, recurrence_rule) ==
    IF current_due_date = NoDate THEN Result(NoDate)
    ELSE LET parsed == parse_recurrence_rule(recurrence_rule) IN
         IF parsed = ValueError THEN RaisedValueError
         ELSE IF parsed.unit = "days"
              THEN Result({ d + parsed.interval : d \in current_due_date })
         ELSE IF parsed.unit = "months"
              THEN Result({ relativedelta(d, 0, parsed.interval) : d \in current_due_date })
         ELSE IF parsed.unit = "years"
              THEN Result({ relativedelta(d, parsed.interval, 0) : d \in current_due_date })
         ELSE Result({ d + parsed.interval : d \in current_due_date })

----------------------------------------------------------------------------
(* Calls of the recurrence functions *)

\* Rule strings callers pass: the grammar in several spellings, and strings
\* outside it.
RuleStrings ==
    { "DAILY", "WEEKLY", "MONTHLY", "YEARLY", "INTERVAL:3", "INTERVAL:10",
      "daily", " Weekly ", "interval:3",
      "", " ", "FOO", "INTERVAL:", "INTERVAL:0", "INTERVAL:-1", "INTERVAL:x",
      "INTERVAL:3:5", "INTERVAL: 3", "INTERVAL:1_0", "INTERVAL3",
      "every_3_days", "every_2_weeks" }

\* Due instants callers pass: none, a day inside a month, and month ends.
DueInstants ==
    { NoDate, {DueDay}, {datetime(2023, 1, 31)}, {datetime(2023, 12, 31)},
      {datetime(2024, 1, 31)}, {datetime(2024, 2, 29)}, {datetime(2024, 4, 30)} }

\* The functions called: the parser and the calculator of services/recurring.py,
\* and the calculator of the recurring-task-service.
RecurrenceFunctions ==
    {"parse_recurrence_rule", "calculate_next_due_date", "handlers.calculate_next_due_date"}

Called(fn, current_due_date, recurrence_rule) ==
    [pc |-> "called", fn |-> fn,
     current_due_date |-> IF fn = "parse_recurrence_rule" THEN NoDate ELSE current_due_date,
     recurrence_rule |-> recurrence_rule]

Finished(call, result) ==
    [pc |-> "returned", fn |-> call.fn, current_due_date |-> call.current_due_date,
     recurrence_rule |-> call.recurrence_rule, result |-> result]

\* A caller calls one of the functions once the previous call is over.
CallRecurrence(c, fn, current_due_date, recurrence_rule) ==
    /\ calls[c].pc = "returned"
    /\ started < MaxRequests
    /\ started' = started + 1
    /\ calls' = [calls EXCEPT ![c] = Called(fn, current_due_date, recurrence_rule)]
    /\ UNCHANGED <<consumerVars, publisherVars, broker, now, tasks, jobs>>

ApplyParse(c) ==
    /\ calls[c].pc = "called"
    /\ calls[c].fn = "parse_recurrence_rule"
    /\ calls' = [calls EXCEPT ![c] =
                    Finished(calls[c], parse_recurrence_rule(calls[c].recurrence_rule))]
    /\ UNCHANGED <<consumerVars, publisherVars, broker, now, tasks, jobs, started>>

ApplyProducer(c) ==
    /\ calls[c].pc = "called"
    /\ calls[c].fn = "calculate_next_due_date"
    /\ calls' = [calls EXCEPT ![c] =
                    Finished(calls[c], next_due_date_of(calls[c].current_due_date,
                                                        calls[c].recurrence_rule))]
    /\ UNCHANGED <<consumerVars, publisherVars, broker, now, tasks, jobs, started>>

ApplyGenerator(c) ==
    /\ calls[c].pc = "called"
    /\ calls[c].fn = "handlers.calculate_next_due_date"
    /\ calls' = [calls EXCEPT ![c] =
                    Finished(calls[c],
                             Result(calculate_next_due_date(calls[c].current_due_date,
                                                            calls[c].recurrence_rule)))]
    /\ UNCHANGED <<consumerVars, publisherVars, broker, now, tasks, jobs, started>>

RecurrenceNext ==
    \/ \E c \in {1}, fn \in RecurrenceFunctions, d \in DueInstants, rule \in RuleStrings :
          CallRecurrence(c, fn, d, rule)
    \/ \E c \in {1} : ApplyParse(c)
    \/ \E c \in {1} : ApplyProducer(c)
    \/ \E c \in {1} : ApplyGenerator(c)

RecurrenceInit ==
    /\ ConsumerInit
    /\ PublisherInit
    /\ now = 1
    /\ tasks = [t \in TaskIds |-> NoTask]
    /\ jobs = {}
    /\ \E fn \in RecurrenceFunctions, d \in DueInstants, rule \in RuleStrings :
          calls = [c \in Requests |-> IF c = 1 THEN Called(fn, d, rule) ELSE Idle]
    /\ started = 1
    /\ broker = {}
    /\ used = {}
    /\ config = [DAPR_ENABLED |-> TRUE]

SpecRecurrence == RecurrenceInit /\ [][RecurrenceNext]_vars

\* The completed tasks whose events reach the recurrence generator: recurring
\* with rules of the grammar and other strings, with and without a due date, and
\* not recurring.
GeneratorPayloads ==
    { [task_id |-> "t1", is_recurring |-> TRUE, recurrence_rule |-> rule, due_date |-> d] :
        rule \in {"DAILY", "WEEKLY", "MONTHLY", "YEARLY", "INTERVAL:3", "FOO", "every_3_days"},
        d \in {NoDate, {DueDay}, {datetime(2023, 1, 31)}} }
    \cup { [task_id |-> "t1", is_recurring |-> r, recurrence_rule |-> None, due_date |-> {DueDay}] :
             r \in BOOLEAN }
    \cup { [task_id |-> "t1", is_recurring |-> FALSE, recurrence_rule |-> "DAILY",
            due_date |-> {DueDay}] }

\* The recurrence generator alone, its deliveries made one at a time.
GeneratorNext ==
    \/ \E i \in {1}, event \in broker : Deliver(i, "recurring", event)
    \/ \E i \in {1}, mode \in StoreModes : Check(i, mode)
    \/ \E i \in {1}, r \in InvokeResponses : CompletedEffect(i, r)
    \/ \E i \in {1}, mode \in StoreModes : Mark(i, mode)

GeneratorInit ==
    /\ ConsumerInit
    /\ PublisherInit
    /\ SchedulerInit
    /\ \E p \in GeneratorPayloads :
          broker = { _build_event("task.completed", "u1", p, e, e) : e \in EventIds }
    /\ used = EventIds
    /\ config = [DAPR_ENABLED |-> TRUE]

SpecGenerator == GeneratorInit /\ [][GeneratorNext]_vars

----------------------------------------------------------------------------
(* Completion of recurring tasks (chat-api routers/tasks.py, auth/jwt.py;
   backend services/recurring.py; recurring-task-service) *)

\* The task table when tasks are completed: the ids the table hands out.
ItemIds == {"t1", "t2", "t3"}

\* task_to_payload: the fields of the task the consumers read.
task_to_payload(task_id, task) ==
    [task_id |-> task_id, is_recurring |-> task.is_recurring,
     recurrence_rule |-> task.recurrence_rule, due_date |-> task.due_date]

\* A registered background publish of a task event, with the payload built when
\* it was registered.
PublishTask(event_type, task_id, payload) ==
    [fn |-> "_publish_task_event_background", task_id |-> task_id, due_date |-> NoDate,
     remind_at |-> NoDate, event_type |-> event_type, payload |-> payload]

\* The headers of a client's request, and of the request create_task_via_dapr sends.
ClientHeaders == {"Content-Type", "Authorization"}
InvocationHeaders == {"Content-Type", "X-User-Id"}

\* Variant: a request without credentials is trusted for its X-User-Id header.
get_current_user_trusting(headers) ==
    IF "Authorization" \in headers \/ "X-User-Id" \in headers THEN "u1" ELSE None

\* get_current_user behind HTTPBearer: the sub claim of the bearer token, None
\* when the request is refused for carrying no Authorization header.
get_current_user(headers) ==
    IF "Authorization" \in headers THEN "u1" ELSE None

\* What HTTPBearer answers a request without credentials (403, or 401 in later
\* releases of the framework).
NotAuthenticated == {Response(401, "Not authenticated"), Response(403, "Not authenticated")}

\* The id (uuid4) of the next row of the table: ids are handed out in this order.
IdOrder == << "t1", "t2", "t3" >>

NextId(id) ==
    \E n \in 1..Len(IdOrder) :
        /\ IdOrder[n] = id
        /\ ~tasks[id].exists
        /\ \A m \in 1..(n - 1) : tasks[IdOrder[m]].exists

\* PATCH /api/tasks/<id>/complete: the task is completed; for a recurring task
\* the next occurrence is stored, linked to it; the publishes are registered.
complete_task(c, task_id, next_id) ==
    /\ get_current_user(ClientHeaders) # None
    /\ tasks[task_id].exists
    /\ NextId(next_id)
    /\ LET task == [tasks[task_id] EXCEPT !.status = "completed"]
           recurring == /\ task.is_recurring
                        /\ task.recurrence_rule # None
                        /\ Len(Chars(task.recurrence_rule)) > 0
           calculated == next_due_date_of(task.due_date, task.recurrence_rule)
           next_due_date == calculated.value
           next_remind_at == calculate_remind_at(next_due_date, task.reminder_offset_minutes)
           next_task == [exists |-> TRUE, status |-> "pending", due_date |-> next_due_date,
                         reminder_offset_minutes |-> task.reminder_offset_minutes,
                         remind_at |-> next_remind_at, is_recurring |-> TRUE,
                         recurrence_rule |-> task.recurrence_rule,
                         parent_task_id |-> task_id]
       IN IF recurring /\ calculated.raised
          THEN /\ tasks' = [tasks EXCEPT ![task_id] = task]
               /\ UNCHANGED <<calls, started>>
          ELSE /\ tasks' = IF recurring
                           THEN [tasks EXCEPT ![task_id] = task, ![next_id] = next_task]
                           ELSE [tasks EXCEPT ![task_id] = task]
               /\ Begin(c, "complete_task",
                        Answer(200, task_id, task, IF recurring THEN next_task ELSE NoTask),
                        << PublishTask("task.completed", task_id, task_to_payload(task_id, task)) >>
                        \o (IF recurring
                            THEN << PublishTask("task.created", next_id,
                                                task_to_payload(next_id, next_task)) >>
                            ELSE << >>)
                        \o (IF recurring /\ next_remind_at # NoDate /\ next_due_date # NoDate
                            THEN << BackgroundTask("publish_reminder_event", next_id,
                                                   next_due_date, next_remind_at) >>
                            ELSE << >>))
    /\ UNCHANGED <<consumerVars, publisherVars, broker, now, jobs>>

\* A background publish calls publish_event.
StartPublish(c, uuid4) ==
    /\ Running(c, {"_publish_task_event_background", "publish_reminder_event"}, "start")
    /\ pub.pc \in {"idle", "returned", "raised"}
    /\ Fresh(uuid4)
    /\ LET task == Current(c) IN
       IF task.fn = "publish_reminder_event"
       THEN publish_reminder_event("u1", task_to_payload(task.task_id, tasks[task.task_id]),
                                   "reminder.scheduled", uuid4)
       ELSE publish_event("task-events", task.event_type, "u1", task.payload, None, uuid4)
    /\ calls' = [calls EXCEPT ![c].pc = "publishing"]
    /\ UNCHANGED <<consumerVars, broker, config, callbacks, now, tasks, jobs, started>>

\* publish_event is over: _publish_task_event_background catches its exception,
\* publish_reminder_event lets it end the run of the background tasks.
EndPublish(c) ==
    /\ calls[c].pc = "publishing"
    /\ pub.pc \in {"returned", "raised"}
    /\ calls' = [calls EXCEPT ![c] =
                    IF pub.pc = "raised" /\ Current(c).fn = "publish_reminder_event"
                    THEN [calls[c] EXCEPT !.pc = "done", !.raised = TRUE]
                    ELSE Proceed(c, << >>)]
    /\ UNCHANGED <<consumerVars, publisherVars, broker, now, tasks, jobs, started>>

\* How the sidecars carry a service invocation.
InvokeModes == {"ok", "status500", "unreachable"}

\* The effect of the recurrence generator with chat-api answering: the POST of
\* create_task_via_dapr reaches create_task of chat-api, which stores the task
\* and registers its publish when get_current_user accepts the request.
InvokeCreateTask(i, c, mode, refusal, new_id) ==
    /\ hnd[i].pc = "effect"
    /\ hnd[i].scope = "recurring"
    /\ LET p == hnd[i].event.payload
           due_date == calculate_next_due_date(p.due_date, p.recurrence_rule)
           posted == p.is_recurring /\ due_date # NoDate
           accepted == posted /\ mode = "ok" /\ get_current_user(InvocationHeaders) # None
           task == [NoTask EXCEPT !.exists = TRUE, !.due_date = due_date,
                                  !.is_recurring = TRUE, !.recurrence_rule = p.recurrence_rule]
       IN IF accepted
          THEN /\ NextId(new_id)
               /\ handle_task_completed_event(i, Response(201, "task"))
               /\ tasks' = [tasks EXCEPT ![new_id] = task]
               /\ Begin(c, "create_task", Answer(201, new_id, task, NoTask),
                        << PublishTask("task.created", new_id, task_to_payload(new_id, task)) >>)
               /\ UNCHANGED <<now, jobs>>
          ELSE /\ handle_task_completed_event(i,
                      CASE mode = "unreachable" -> RequestError
                        [] mode = "status500" -> Response(500, "error")
                        [] OTHER -> refusal)
               /\ UNCHANGED schedulerVars

\* A client completes pending tasks; the task.completed events reach the
\* recurrence generator one delivery at a time, and its requests reach chat-api.
RecurringNext ==
    \/ \E c \in Requests, task_id \in ItemIds, next_id \in ItemIds :
          tasks[task_id].status = "pending" /\ complete_task(c, task_id, next_id)
    \/ \E c \in Requests, uuid4 \in EventIds : StartPublish(c, uuid4)
    \/ \E response \in SidecarResponses : Post(response)
    \/ \E c \in Requests : EndPublish(c)
    \/ \E i \in {1}, event \in broker : Deliver(i, "recurring", event)
    \/ \E i \in {1}, mode \in StoreModes : Check(i, mode)
    \/ \E i \in {1}, c \in Requests, mode \in InvokeModes, refusal \in NotAuthenticated,
          new_id \in ItemIds : InvokeCreateTask(i, c, mode, refusal, new_id)
    \/ \E i \in {1}, mode \in StoreModes : Mark(i, mode)

\* One task, recurring or not, due on DueDay.
RecurringInit ==
    /\ ConsumerInit
    /\ PublisherInit
    /\ now = 1
    /\ \E recurring \in BOOLEAN, rule \in {"DAILY", "WEEKLY"} :
          tasks = [t \in ItemIds |->
                      IF t = "t1"
                      THEN [NoTask EXCEPT !.exists = TRUE, !.due_date = {DueDay},
                                          !.is_recurring = recurring,
                                          !.recurrence_rule = IF recurring THEN rule ELSE None]
                      ELSE NoTask]
    /\ jobs = {}
    /\ calls = [c \in Requests |-> Idle]
    /\ started = 0
    /\ broker = {}
    /\ used = {}
    /\ config = [DAPR_ENABLED |-> TRUE]

SpecRecurring == RecurringInit /\ [][RecurringNext]_vars

\* No request has background tasks still to run.
NoneRunning == \A b \in Requests : calls[b].pc \in {"idle", "done"}

\* The four routes that change a task, with their background tasks: clients
\* create, update, delete and complete tasks, one request after the other, while
\* publishes succeed or fail.
RoutesNext ==
    \/ \E c \in Requests, task_id \in TaskIds, due_date \in DueDates, offset \in Offsets :
          NoneRunning /\ create_task(c, task_id, due_date, offset)
    \/ \E c \in Requests, task_id \in TaskIds, due_date \in DueDates, offset \in Offsets :
          NoneRunning /\ update_task(c, task_id, due_date, offset)
    \/ \E c \in Requests, task_id \in TaskIds : NoneRunning /\ delete_task(c, task_id)
    \/ \E c \in Requests, task_id \in ItemIds, next_id \in ItemIds :
          /\ NoneRunning
          /\ tasks[task_id].status = "pending"
          /\ complete_task(c, task_id, next_id)
    \/ \E c \in Requests, mode \in SchedulerModes : RunSchedule(c, mode)
    \/ \E c \in Requests, mode \in SchedulerModes : RunCancel(c, mode)
    \/ \E c \in Requests, mode \in SchedulerModes : RescheduleCancel(c, mode)
    \/ \E c \in Requests, mode \in SchedulerModes : RescheduleSchedule(c, mode)
    \/ \E c \in Requests, outcome \in {"returned", "raised"} : RunPublish(c, outcome)

\* One task is stored, recurring or not, with or without a reminder.
RoutesInit ==
    /\ ConsumerInit
    /\ PublisherInit
    /\ now = 1
    /\ \E recurring \in BOOLEAN, offset \in {{}, {1}} :
          tasks = [t \in ItemIds |->
                      IF t = "t1"
                      THEN [NoTask EXCEPT !.exists = TRUE, !.due_date = {DueDay},
                                          !.reminder_offset_minutes = offset,
                                          !.remind_at = calculate_remind_at({DueDay}, offset),
                                          !.is_recurring = recurring,
                                          !.recurrence_rule =
                                              IF recurring THEN "MONTHLY" ELSE None]
                      ELSE NoTask]
    /\ jobs = {}
    /\ calls = [c \in Requests |-> Idle]
    /\ started = 0
    /\ broker = {}
    /\ used = {}
    /\ config = [DAPR_ENABLED |-> TRUE]

SpecRoutes == RoutesInit /\ [][RoutesNext]_vars

----------------------------------------------------------------------------
(* Properties of the consumers *)

EventOf(e) == CHOOSE event \in broker : event.event_id = e

\* What a scope's effect leaves behind for an event id.
EffectCount(s, e) ==
    CASE s = "audit" -> audit_log[e]
      [] s = "notification" -> notified[e]
      [] s = "recurring" -> create_reqs[e]

\* How often one handling of the event performs the scope's effect: the recurrence
\* generator requests no item for a task that does not recur or has no next date.
EffectsPerHandling(s, e) ==
    LET p == EventOf(e).payload IN
    IF s = "recurring" /\ (~p.is_recurring \/ p.recurrence_rule \notin {"DAILY"})
    THEN 0 ELSE 1

\* Deliveries of the event to the scope came one after the other, the state store
\* answered every call on the marker, and the marker's time-to-live has not run out.
SequentialNormal(s, e) ==
    LET k == _key(s, e) IN ~faults[k] /\ ~expired[k] /\ ~overlap[k]

Raised(s, e) == \E n \in 1..Len(results[s][e]) : results[s][e][n] = "exception"

Handled(s, e) == { n \in 1..Len(results[s][e]) : results[s][e][n] # "exception" }

\* C1: when an envelope is delivered twice in a row to a scope, with the state
\* store reachable and the marker unexpired, the first delivery performs the
\* scope's effect and returns its result, every later one returns duplicate, and
\* the effect has been performed exactly once.
C1_SecondDeliveryIsDuplicate ==
    \A s \in Scopes, e \in EventIds :
        LET r == results[s][e] IN
        (SequentialNormal(s, e) /\ Len(r) >= 1 /\ r[1] # "exception") =>
            /\ r[1] \in {"success", "error"}
            /\ EffectCount(s, e) = EffectsPerHandling(s, e)
            /\ \A n \in 2..Len(r) : r[n] = "duplicate"

C1_Witness ==
    \E s \in Scopes, e \in EventIds :
        /\ SequentialNormal(s, e)
        /\ results[s][e] = <<"success", "duplicate">>
        /\ EffectCount(s, e) = 1

\* C2: two deliveries of one event_id handled concurrently by one scope, their
\* steps interleaved in any order, perform the scope's effect exactly once (here:
\* never more than once, the state store answering every call and no marker expiring).
C2_ConcurrentExactlyOnce ==
    \A s \in Scopes, e \in EventIds :
        LET k == _key(s, e) IN
        (~faults[k] /\ ~expired[k] /\ ~Raised(s, e)) => EffectCount(s, e) <= 1

\* C3: a handling in which is_processed returns true returns duplicate and changes
\* nothing else: no audit row, no notification, no item-creation request, no write
\* to the marker; so under sequential delivery with the store available the marker
\* of a (scope, event_id) pair has been written exactly once.
C3_DuplicateIsNoOp ==
    /\ [][\A i \in Slots :
            (hnd[i].pc = "check" /\ hnd'[i].pc = "idle") =>
                /\ store_call'.result
                /\ results'[hnd[i].scope][hnd[i].event.event_id]
                     = Append(results[hnd[i].scope][hnd[i].event.event_id], "duplicate")
                /\ UNCHANGED <<statestore, writes, audit_log, notified, sent, create_reqs>>
         ]_vars
    /\ [](\A s \in Scopes, e \in EventIds :
            (SequentialNormal(s, e) /\ Len(results[s][e]) >= 1 /\ ~Raised(s, e)) =>
                writes[_key(s, e)] = 1)

C3_Witness ==
    \E s \in Scopes, e \in EventIds :
        /\ SequentialNormal(s, e)
        /\ Len(results[s][e]) = 3
        /\ results[s][e][2] = "duplicate" /\ results[s][e][3] = "duplicate"
        /\ writes[_key(s, e)] = 1
        /\ statestore[_key(s, e)] # NoValue

\* C8: whenever the state store is unreachable or times out, is_processed returns
\* false without raising, and the handler goes on to its effect step.
C8_UnreachableStoreMeansNotProcessed ==
    [][\A i \in Slots :
         (hnd[i].pc = "check" /\ hnd'[i] # hnd[i] /\ store_call'.mode = "unreachable") =>
             /\ ~store_call'.result
             /\ hnd'[i].pc = "effect"
             /\ UNCHANGED results
      ]_vars

C8_Witness ==
    \E i \in Slots :
        /\ hnd[i].pc = "effect"
        /\ store_call.mode = "unreachable" /\ ~store_call.result
        /\ statestore[_key(hnd[i].scope, hnd[i].event.event_id)] # NoValue
        /\ \A j \in Slots : j # i => hnd[j].pc = "idle"

\* C9: a mark_processed that fails (store unreachable or non-success status) after
\* the effect leaves the effect in place and the handler returns its normal result;
\* with no marker written, a later delivery of the event_id is not a duplicate and
\* performs the effect again.
C9_FailedMarkKeepsEffect ==
    /\ [][\A i \in Slots :
            (hnd[i].pc = "mark" /\ hnd'[i] # hnd[i] /\ store_call'.mode # "ok") =>
                /\ ~store_call'.result
                /\ hnd[i].status \in {"success", "error"}
                /\ results'[hnd[i].scope][hnd[i].event.event_id]
                     = Append(results[hnd[i].scope][hnd[i].event.event_id], hnd[i].status)
                /\ UNCHANGED <<statestore, writes, audit_log, notified, sent, create_reqs>>
         ]_vars
    /\ [](\A s \in Scopes, e \in EventIds :
            (writes[_key(s, e)] = 0 /\ ~InFlight(s, e)) =>
                /\ \A n \in 1..Len(results[s][e]) : results[s][e][n] # "duplicate"
                /\ EffectCount(s, e) = Cardinality(Handled(s, e)) * EffectsPerHandling(s, e))

C9_Witness ==
    \E s \in Scopes, e \in EventIds :
        /\ ~overlap[_key(s, e)]
        /\ writes[_key(s, e)] = 0
        /\ results[s][e] = <<"success", "success">>
        /\ EffectCount(s, e) = 2

\* C10: in the recurrence generator, when the service invocation that creates the
\* next occurrence fails, the handler returns error and still writes the marker;
\* while that marker is readable (store reachable, time-to-live not run out) every
\* later delivery of the event_id returns duplicate and no creation is attempted again.
C10_FailedCreateIsNotRetried ==
    \A e \in EventIds :
        LET r == results["recurring"][e]
            k == _key("recurring", e)
        IN (SequentialNormal("recurring", e) /\ Len(r) >= 1 /\ r[1] = "error") =>
               /\ writes[k] = 1
               /\ statestore[k] # NoValue
               /\ create_reqs[e] = 1
               /\ \A n \in 2..Len(r) : r[n] = "duplicate"

C10_Witness ==
    \E e \in EventIds :
        /\ SequentialNormal("recurring", e)
        /\ results["recurring"][e] = <<"error", "duplicate", "duplicate">>
        /\ create_reqs[e] = 1

\* The handlings of the event by the scope that did not return duplicate.
Reprocessed(s, e) == { n \in 1..Len(results[s][e]) : results[s][e][n] \in {"success", "error"} }

\* C29: every marker is written with a time-to-live of 86400 seconds; once the
\* marker of an event_id has run out, a redelivery of the event_id is handled as
\* new: is_processed finds nothing, the effect is performed again and a new
\* marker is written.
C29_ExpiredMarkerIsReprocessed ==
    /\ [](\A k \in Keys : statestore[k] # NoValue => statestore[k].ttlInSeconds = 86400)
    /\ [][\A i \in Slots :
            LET k == _key(hnd[i].scope, hnd[i].event.event_id) IN
            /\ (/\ hnd[i].pc = "check" /\ hnd'[i] # hnd[i]
                /\ expired[k] /\ statestore[k] = NoValue) =>
                   /\ ~store_call'.result
                   /\ hnd'[i].pc = "effect"
            /\ (/\ hnd[i].pc = "mark" /\ hnd'[i] # hnd[i]
                /\ store_call'.mode = "ok") =>
                   /\ statestore'[k] = [value |-> hnd[i].event.event_id, ttlInSeconds |-> 86400]
                   /\ writes'[k] = writes[k] + 1
         ]_vars
    /\ [](\A s \in Scopes, e \in EventIds :
            (/\ ~faults[_key(s, e)] /\ ~overlap[_key(s, e)] /\ ~Raised(s, e) /\ ~InFlight(s, e)
             /\ expired[_key(s, e)]) =>
                /\ EffectCount(s, e) = Cardinality(Reprocessed(s, e)) * EffectsPerHandling(s, e)
                /\ writes[_key(s, e)] = Cardinality(Reprocessed(s, e)))

C29_Witness ==
    \E s \in Scopes, e \in EventIds :
        /\ ~faults[_key(s, e)] /\ ~overlap[_key(s, e)]
        /\ expired[_key(s, e)]
        /\ results[s][e] = <<"success", "success">>
        /\ EffectCount(s, e) = 2
        /\ writes[_key(s, e)] = 2
        /\ statestore[_key(s, e)] = [value |-> e, ttlInSeconds |-> 86400]

\* C30: a delivery is reported duplicate only if a marker of the same scope and
\* the same event_id exists, written by an earlier handling of that event_id by
\* that scope; the marker of another scope, or of another event_id with the same
\* payload, never makes a delivery a duplicate.
C30_DuplicateNeedsOwnMarker ==
    /\ [][\A i \in Slots :
            (hnd[i].pc = "check" /\ hnd'[i].pc = "idle") =>
                \E k \in DOMAIN statestore :
                    /\ k = hnd[i].scope \o "-processed:" \o hnd[i].event.event_id
                    /\ statestore[k] # NoValue
                    /\ statestore[k].value = hnd[i].event.event_id
         ]_vars
    /\ [](\A s \in Scopes, e \in EventIds :
            \A n \in 1..Len(results[s][e]) :
                results[s][e][n] = "duplicate" =>
                    \E m \in 1..(n - 1) : results[s][e][m] \in {"success", "error"})

C30_Witness ==
    /\ \A event \in broker : event.event_type = "task.completed"
    /\ \A e1 \in EventIds, e2 \in EventIds : EventOf(e1).payload = EventOf(e2).payload
    /\ statestore[_key("audit", "e1")] # NoValue
    /\ statestore[_key("recurring", "e1")] = NoValue
    /\ results["audit"]["e1"] = << "success" >>
    /\ results["audit"]["e2"] = << "success" >>
    /\ audit_log["e2"] = 1
    /\ \E n \in 1..Len(results["recurring"]["e1"]) :
          results["recurring"]["e1"][n] \in {"success", "error"}

----------------------------------------------------------------------------
(* Properties of the consumer endpoints *)

\* C11: a delivery whose body is malformed (event_id or timestamp missing, or not
\* JSON) is answered with a 4xx status, and a body without event_id leaves no
\* effect and no marker behind.
C11_MalformedIsRejected ==
    /\ \A s \in Scopes, e \in Ids :
          \A n \in 1..Len(responses[s][e]) :
              responses[s][e][n].body # "envelope" =>
                  responses[s][e][n].status_code \in 400..499
    /\ \A s \in Scopes :
          /\ EffectCount(s, None) = 0
          /\ writes[_key(s, None)] = 0
          /\ statestore[_key(s, None)] = NoValue

\* C12: every endpoint answers 204 exactly when the handler result is duplicate,
\* 200 when it is success and 500 when an exception escaped the handling; a
\* duplicate or a successfully processed delivery is never answered with a 5xx.
C12_EndpointStatus ==
    \A s \in Scopes, e \in Ids :
        /\ Len(responses[s][e]) = Len(results[s][e])
        /\ \A n \in 1..Len(results[s][e]) :
              LET result == results[s][e][n]
                  status_code == responses[s][e][n].status_code
              IN /\ status_code = 204 <=> result = "duplicate"
                 /\ result = "success" => status_code = 200
                 /\ result = "exception" => status_code = 500
                 /\ result \in {"duplicate", "success"} => status_code \notin 500..599

C12_Witness ==
    \E s \in Scopes :
        /\ results[s]["e1"] = <<"success", "duplicate", "exception">>
        /\ responses[s]["e1"][1].status_code = 200
        /\ responses[s]["e1"][2].status_code = 204
        /\ responses[s]["e1"][3].status_code = 500

----------------------------------------------------------------------------
(* Properties of the callback scheduler *)

\* Request c takes a step of one of the functions fns.
Steps(c, fns) ==
    /\ calls[c].pc \in {"start", "cancelled"}
    /\ Current(c).fn \in fns
    /\ calls'[c] # calls[c]

\* The value the function call that ended last in request c returned.
LastValue(c) == calls[c].returns[Len(calls[c].returns)].value

\* C13: schedule_reminder_job called with a remind_at strictly before the current
\* time returns False, sends no request to the scheduler and leaves the scheduled
\* jobs as they are.
C13_PastReminderIsRefused ==
    [][\A c \in Requests :
         (/\ Steps(c, {"schedule_reminder_job"})
          /\ \E at \in Current(c).remind_at : at < now) =>
             /\ calls'[c].pc = "done"
             /\ calls'[c].returns = << [fn |-> "schedule_reminder_job", value |-> FALSE] >>
             /\ calls'[c].log = << >>
             /\ jobs' = jobs
      ]_vars

C13_Witness ==
    \E c \in Requests :
        /\ calls[c].pc = "done"
        /\ calls[c].queue[1].fn = "schedule_reminder_job"
        /\ \E at \in calls[c].queue[1].remind_at : at < now
        /\ calls[c].returns = << [fn |-> "schedule_reminder_job", value |-> FALSE] >>
        /\ calls[c].log = << >>
        /\ jobs # {}

\* C14: cancel_reminder_job returns True when the scheduler had the job and
\* deleted it, and when it had no job of that name (404); either way no job of
\* the name is left, so a second cancellation in a row changes neither the jobs
\* nor the result.
C14_CancelIsIdempotent ==
    [][\A c \in Requests :
         (/\ Steps(c, {"cancel_reminder_job"})
          /\ calls'[c].log[1].response.status_code \in {204, 404}) =>
             /\ calls'[c].pc = "done"
             /\ LastValue(c)'
             /\ calls'[c].log = << Sent("DELETE", _build_job_name(Current(c).task_id), NoDate,
                                        calls'[c].log[1].response) >>
             /\ jobs' = { j \in jobs : j.name # "reminder-" \o Current(c).task_id }
             /\ calls'[c].log[1].response.status_code = 404 => jobs' = jobs
      ]_vars

C14_Witness ==
    /\ \A c \in Requests :
          /\ calls[c].pc = "done"
          /\ calls[c].queue[1].fn = "cancel_reminder_job"
          /\ calls[c].queue[1].task_id = "t1"
          /\ LastValue(c)
    /\ calls[1].log[1].response.status_code = 204
    /\ calls[2].log[1].response.status_code = 404

\* C15: reschedule_reminder_job with remind_at = None does what cancel_reminder_job
\* does: one DELETE and no POST, the same jobs afterwards, and the value
\* cancel_reminder_job returns for the scheduler's answer.
C15_RescheduleNoneIsCancel ==
    [][\A c \in Requests :
         (/\ Steps(c, {"reschedule_reminder_job"})
          /\ Current(c).remind_at = NoDate) =>
             /\ calls'[c].pc = "done"
             /\ Len(calls'[c].log) = 1
             /\ calls'[c].log[1].method = "DELETE"
             /\ jobs' \subseteq jobs
             /\ LastValue(c)' = cancel_job(calls'[c].log[1].response)
      ]_vars

\* C16: every reschedule_reminder_job call sends the DELETE of job
\* reminder-<task_id> first and a POST only after the DELETE has been answered; it
\* goes on to schedule_reminder_job exactly when remind_at is not None.
C16_CancelBeforeCreate ==
    \A c \in Requests :
        (calls[c].pc # "idle" /\ calls[c].queue[1].fn = "reschedule_reminder_job") =>
            LET task == calls[c].queue[1]
                log == calls[c].log
                delete == Len(log) >= 1 /\ log[1].method = "DELETE"
                                        /\ log[1].name = "reminder-" \o task.task_id
            IN /\ Len(log) <= 2
               /\ \A n \in 1..Len(log) : log[n].method = "POST" <=> n = 2
               /\ calls[c].pc = "start" => log = << >>
               /\ calls[c].pc = "cancelled" => delete /\ Len(log) = 1 /\ task.remind_at # NoDate
               /\ calls[c].pc = "done" =>
                    /\ delete
                    /\ task.remind_at = NoDate =>
                         Len(log) = 1 /\ calls[c].returns =
                                           << [fn |-> "reschedule_reminder_job", value |-> TRUE] >>
                    /\ Len(log) = 2 =>
                         /\ task.remind_at # NoDate
                         /\ log[2].name = log[1].name
                         /\ log[2].schedule = task.remind_at

C16_Witness ==
    \E c \in Requests :
        /\ calls[c].pc = "done"
        /\ calls[c].queue[1].fn = "reschedule_reminder_job"
        /\ Len(calls[c].log) = 2
        /\ calls[c].log[1].method = "DELETE" /\ calls[c].log[1].response.status_code = 204
        /\ calls[c].log[2].method = "POST"
        /\ \E j \in jobs : j.name = calls[c].log[2].name /\ j.schedule = calls[c].log[2].schedule

\* The scheduler's live jobs for a task.
JobsOf(task_id) == { j \in jobs : j.data.task_id = task_id }

\* C17: in every reachable state, however the background tasks of create, update
\* and delete requests interleave, the scheduler holds at most one job per task,
\* and its name is "reminder-" followed by the task id.
C17_OneJobPerTask ==
    \A task_id \in TaskIds :
        /\ Cardinality(JobsOf(task_id)) <= 1
        /\ \A j \in JobsOf(task_id) : j.name = "reminder-" \o task_id

C17_Witness ==
    /\ calls[1].pc = "done" /\ calls[1].origin = "create_task"
    /\ calls[2].pc = "done" /\ calls[2].origin = "update_task"
    /\ calls[1].queue[1].task_id = "t1" /\ calls[2].queue[1].task_id = "t1"
    /\ calls[1].queue[1].remind_at # calls[2].queue[1].remind_at
    /\ \E n \in 1..Len(calls[1].log) :
          calls[1].log[n].method = "POST" /\ calls[1].log[n].response.status_code = 204
    /\ \E n \in 1..Len(calls[2].log) :
          calls[2].log[n].method = "POST" /\ calls[2].log[n].response.status_code = 204
    /\ Cardinality(JobsOf("t1")) = 1

\* The request log of c holds a create request for the job of task with fire
\* time remind_at.
CreateRequested(c, task_id, remind_at) ==
    \E n \in 1..Len(calls[c].log) :
        /\ calls[c].log[n].method = "POST"
        /\ calls[c].log[n].name = "reminder-" \o task_id
        /\ calls[c].log[n].schedule = remind_at

\* C20: a task with due date D and reminder offset m is stored with
\* remind_at = D - m, and once the background tasks of the create_task request
\* are over, with remind_at still not past, a create request for the job
\* reminder-<task_id> with fire time remind_at has been sent to the scheduler.
C20_CreateSchedulesReminder ==
    /\ \A task_id \in TaskIds :
          tasks[task_id].exists /\ tasks[task_id].reminder_offset_minutes # {} =>
              tasks[task_id].remind_at =
                  { d - m : d \in tasks[task_id].due_date,
                            m \in tasks[task_id].reminder_offset_minutes }
    /\ \A c \in Requests :
          calls[c].pc = "done" /\ calls[c].origin = "create_task" =>
              LET task == calls[c].queue[1] IN
              task.remind_at # NoDate /\ (\A at \in task.remind_at : at >= now) =>
                  CreateRequested(c, task.task_id, task.remind_at)

\* C35: in create_task and update_task a failed publish of reminder.scheduled
\* does not keep the scheduling task registered after it from running: once the
\* run of the background tasks is over, schedule_reminder_job (or
\* reschedule_reminder_job) has been called, and with remind_at still not past a
\* create request for the job of the task has been sent to the scheduler.
C35_ScheduleDespiteFailedPublish ==
    \A c \in Requests :
        ( /\ calls[c].pc = "done"
          /\ calls[c].origin \in {"create_task", "update_task"}
          /\ Len(calls[c].queue) = 3 ) =>
            LET task == calls[c].queue[3] IN
            /\ \E n \in 1..Len(calls[c].returns) : calls[c].returns[n].fn = task.fn
            /\ (\A at \in task.remind_at : at >= now) =>
                    CreateRequested(c, task.task_id, task.remind_at)

\* C36: DaprClient.schedule_job and cancel_job retry: a request to the scheduler
\* that met a transport error or a non-success answer is followed, within the
\* same call, by at least one further request of the same method for the same
\* job before the failure value is returned.
C36_JobCallsRetry ==
    \A c \in Requests :
        calls[c].pc = "done" =>
            \A n \in 1..Len(calls[c].log) :
                LET req == calls[c].log[n] IN
                ( /\ req.method \in {"POST", "DELETE"}
                  /\ \/ req.response.raised
                     \/ req.response.status_code \notin {200, 201, 204, 404} ) =>
                    /\ n < Len(calls[c].log)
                    /\ calls[c].log[n + 1].method = req.method
                    /\ calls[c].log[n + 1].name = req.name

\* Every request the run of c sent to the scheduler or to the broker was answered
\* with success, and no publish ended the run early.
Undisturbed(c) ==
    /\ ~calls[c].raised
    /\ \A n \in 1..Len(calls[c].log) :
          /\ ~calls[c].log[n].response.raised
          /\ calls[c].log[n].response.status_code \in {200, 201, 204, 404}

\* C37: two update_task requests for one task with different reminder times
\* have committed and the background tasks of both are over, undisturbed, in
\* whatever order they ran; with the stored remind_at still ahead, the
\* scheduler's job for the task fires at the stored remind_at.
C37_JobFollowsStoredRemindAt ==
    \A a \in Requests, b \in Requests :
        ( /\ a # b
          /\ calls[a].pc = "done" /\ calls[b].pc = "done"
          /\ calls[a].origin = "update_task" /\ calls[b].origin = "update_task"
          /\ Undisturbed(a) /\ Undisturbed(b)
          /\ calls[a].queue[1].task_id = calls[b].queue[1].task_id
          /\ calls[a].queue[1].remind_at # NoDate
          /\ calls[b].queue[1].remind_at # NoDate
          /\ calls[a].queue[1].remind_at # calls[b].queue[1].remind_at ) =>
            LET task_id == calls[a].queue[1].task_id IN
            ( /\ tasks[task_id].exists
              /\ \A at \in tasks[task_id].remind_at : at > now ) =>
                /\ JobsOf(task_id) # {}
                /\ \A j \in JobsOf(task_id) : j.schedule = tasks[task_id].remind_at

\* C38: a task has been deleted and the background tasks of the delete_task
\* request and of the request made before it for the same task (create_task or
\* update_task) are over, undisturbed, in whatever order they ran; the scheduler
\* then holds no job for the task.
C38_NoJobAfterDelete ==
    \A a \in Requests, b \in Requests :
        ( /\ a # b
          /\ calls[a].pc = "done" /\ calls[b].pc = "done"
          /\ calls[a].origin \in {"create_task", "update_task"}
          /\ calls[b].origin = "delete_task"
          /\ Undisturbed(a) /\ Undisturbed(b)
          /\ calls[a].queue[1].task_id = calls[b].queue[1].task_id
          /\ ~tasks[calls[b].queue[1].task_id].exists ) =>
            JobsOf(calls[b].queue[1].task_id) = {}

\* The run of c has published the reminder.scheduled event of its background
\* task k.
ReminderPublished(c, k) ==
    /\ k \in 1..Len(calls[c].queue)
    /\ calls[c].queue[k].fn = "publish_reminder_event"
    /\ \E n \in 1..Len(calls[c].log) :
          /\ calls[c].log[n].method = "PUBLISH"
          /\ calls[c].log[n].name = "publish_reminder_event"

\* C39: a request (create_task, update_task, complete_task for the next
\* occurrence) that has published reminder.scheduled for a task whose remind_at
\* is not past has, once its background tasks are over, also sent the scheduler
\* a create request for the job reminder-<task_id> with fire time remind_at.
C39_PublishedReminderIsScheduled ==
    \A c \in Requests :
        calls[c].pc = "done" =>
            \A k \in 1..Len(calls[c].queue) :
                ( /\ ReminderPublished(c, k)
                  /\ \A at \in calls[c].queue[k].remind_at : at >= now ) =>
                    CreateRequested(c, calls[c].queue[k].task_id, calls[c].queue[k].remind_at)

----------------------------------------------------------------------------
(* Properties of the reminder callback *)

\* C18: every invocation of the reminder callback route starts exactly one
\* publish_event call, for an event of type reminder.triggered on the topic
\* reminders that carries the task_id and the user_id of the job, and changes
\* nothing else: no task, no idempotency marker, no job of the scheduler.
C18_CallbackPublishesTriggered ==
    [][\A job \in Jobs :
          callbacks'[job] # callbacks[job] =>
              /\ callbacks'[job] = callbacks[job] + 1
              /\ Cardinality(used') = Cardinality(used) + 1
              /\ pub'.pc = "post" /\ pub'.attempt = 1 /\ posts' = << >>
              /\ pub'.topic = "reminders"
              /\ pub'.event.event_type = "reminder.triggered"
              /\ pub'.event.event_id \in used' \ used
              /\ pub'.event.payload.task_id = JobData(job).task_id
              /\ pub'.event.user_id = "u1"
              /\ UNCHANGED <<tasks, jobs, statestore, writes, broker>>
              /\ UNCHANGED <<consumerVars, schedulerVars>>]_vars

C18_Witness ==
    /\ callbacks["reminder-t1"] = 2
    /\ Cardinality(used) = 2
    /\ pub.pc = "post"
    /\ pub.event.event_type = "reminder.triggered"
    /\ pub.event.payload.task_id = "t1"

----------------------------------------------------------------------------
(* Properties of the completion of recurring tasks *)

\* The recurrence generator has handled the task.completed event of a task to
\* the end, whatever chat-api answered its request.
GeneratorHandled(task_id) ==
    \E event \in broker :
        /\ event.event_type = "task.completed"
        /\ event.payload.task_id = task_id
        /\ \E n \in 1..Len(results["recurring"][event.event_id]) :
              results["recurring"][event.event_id][n] \in {"success", "error"}

\* The tasks stored as the next occurrence of a task.
Occurrences(task_id) ==
    { x \in ItemIds : tasks[x].exists /\ tasks[x].parent_task_id = task_id }

\* The tasks stored by a creation request: they have no parent.
Unlinked == { x \in ItemIds : tasks[x].exists /\ tasks[x].parent_task_id = None } \ {"t1"}

----------------------------------------------------------------------------
(* Properties of the recurrence functions *)

\* The rule as the grammar reads it: upper case, no surrounding whitespace.
GrammarText(rule) == strip(upper(Chars(rule)))

\* The digits N of INTERVAL:N.
IntervalDigits(text) == SubSeq(text, Len(Chars("INTERVAL:")) + 1, Len(text))

IsInterval(text) ==
    /\ startswith(text, Chars("INTERVAL:"))
    /\ Len(IntervalDigits(text)) > 0
    /\ \A n \in 1..Len(IntervalDigits(text)) : isdigit(IntervalDigits(text)[n])
    /\ Decimal(IntervalDigits(text)) >= 1

\* The grammar DAILY | WEEKLY | MONTHLY | YEARLY | INTERVAL:N, N a positive integer.
InGrammar(rule) ==
    \/ GrammarText(rule) \in {Chars("DAILY"), Chars("WEEKLY"), Chars("MONTHLY"), Chars("YEARLY")}
    \/ IsInterval(GrammarText(rule))

\* The record the grammar assigns to a rule.
GrammarRecord(rule) ==
    LET text == GrammarText(rule) IN
    CASE text = Chars("DAILY") -> [type |-> "DAILY", interval |-> 1, unit |-> "days"]
      [] text = Chars("WEEKLY") -> [type |-> "WEEKLY", interval |-> 7, unit |-> "days"]
      [] text = Chars("MONTHLY") -> [type |-> "MONTHLY", interval |-> 1, unit |-> "months"]
      [] text = Chars("YEARLY") -> [type |-> "YEARLY", interval |-> 1, unit |-> "years"]
      [] OTHER -> [type |-> "INTERVAL", interval |-> Decimal(IntervalDigits(text)),
                   unit |-> "days"]

\* Call c is over and was a call of fn.
Applied(c, fn) == calls[c].pc = "returned" /\ calls[c].fn = fn

\* C24: for every due instant and every rule of the grammar, the producer's
\* calculate_next_due_date and the recurrence generator's calculate_next_due_date
\* return the same next due instant.
C24_CalculatorsAgree ==
    \A c \in Requests :
        /\ calls[c].pc = "returned"
        /\ calls[c].fn \in {"calculate_next_due_date", "handlers.calculate_next_due_date"}
        /\ calls[c].current_due_date # NoDate
        /\ InGrammar(calls[c].recurrence_rule)
        => /\ calls[c].result =
                 next_due_date_of(calls[c].current_due_date, calls[c].recurrence_rule)
           /\ calls[c].result =
                 [raised |-> FALSE,
                  value |-> calculate_next_due_date(calls[c].current_due_date,
                                                    calls[c].recurrence_rule)]

\* C25: for MONTHLY and YEARLY the producer's calculate_next_due_date moves the
\* date by one calendar month or year and keeps the day of the month, cut down to
\* the last day of the month reached: 2024-01-31 MONTHLY gives 2024-02-29,
\* 2023-01-31 MONTHLY gives 2023-02-28, 2024-02-29 YEARLY gives 2025-02-28.
C25_CalendarArithmetic ==
    \A c \in Requests :
        Applied(c, "calculate_next_due_date") /\ calls[c].current_due_date # NoDate =>
            LET rule == GrammarText(calls[c].recurrence_rule)
                result == calls[c].result
            IN /\ rule = Chars("MONTHLY") =>
                     /\ ~result.raised
                     /\ \A d \in calls[c].current_due_date :
                           \E next \in result.value :
                              /\ result.value = {next}
                              /\ Civil(next).month = (Civil(d).month % 12) + 1
                              /\ Civil(next).year =
                                    Civil(d).year + (IF Civil(d).month = 12 THEN 1 ELSE 0)
                              /\ Civil(next).day =
                                    Min(Civil(d).day,
                                        DaysInMonth(Civil(next).year, Civil(next).month))
               /\ rule = Chars("YEARLY") =>
                     /\ ~result.raised
                     /\ \A d \in calls[c].current_due_date :
                           \E next \in result.value :
                              /\ result.value = {next}
                              /\ Civil(next).month = Civil(d).month
                              /\ Civil(next).year = Civil(d).year + 1
                              /\ Civil(next).day =
                                    Min(Civil(d).day,
                                        DaysInMonth(Civil(next).year, Civil(next).month))
               /\ (rule = Chars("MONTHLY") /\ calls[c].current_due_date = {datetime(2024, 1, 31)})
                     => result.value = {datetime(2024, 2, 29)}
               /\ (rule = Chars("MONTHLY") /\ calls[c].current_due_date = {datetime(2023, 1, 31)})
                     => result.value = {datetime(2023, 2, 28)}
               /\ (rule = Chars("YEARLY") /\ calls[c].current_due_date = {datetime(2024, 2, 29)})
                     => result.value = {datetime(2025, 2, 28)}

\* A leap-day clamp happened: 2024-01-31 MONTHLY returned 2024-02-29.
C25_Witness ==
    /\ Applied(1, "calculate_next_due_date")
    /\ calls[1].recurrence_rule = "MONTHLY"
    /\ calls[1].current_due_date = {datetime(2024, 1, 31)}
    /\ calls[1].result.value = {datetime(2024, 2, 29)}

\* C26: parse_recurrence_rule raises for every string outside the grammar and
\* never returns a parsed rule for it.
C26_OutsideGrammarRaises ==
    \A c \in Requests :
        Applied(c, "parse_recurrence_rule") /\ ~InGrammar(calls[c].recurrence_rule) =>
            calls[c].result = [type |-> "ValueError", interval |-> 0, unit |-> ""]

\* C27: parse_recurrence_rule maps every rule of the grammar, in any case and with
\* surrounding whitespace, to its record (DAILY 1 days, WEEKLY 7 days, MONTHLY 1
\* months, YEARLY 1 years, INTERVAL:N N days), and calculate_next_due_date adds
\* exactly that many days for the rules whose unit is days.
C27_GrammarParsed ==
    \A c \in Requests :
        /\ Applied(c, "parse_recurrence_rule") /\ InGrammar(calls[c].recurrence_rule) =>
              calls[c].result = GrammarRecord(calls[c].recurrence_rule)
        /\ ( /\ Applied(c, "calculate_next_due_date")
             /\ InGrammar(calls[c].recurrence_rule)
             /\ GrammarRecord(calls[c].recurrence_rule).unit = "days"
             /\ calls[c].current_due_date # NoDate )
           => calls[c].result =
                 [raised |-> FALSE,
                  value |-> { d + GrammarRecord(calls[c].recurrence_rule).interval :
                                d \in calls[c].current_due_date }]

\* A lower-case interval rule was parsed.
C27_Witness ==
    /\ Applied(1, "parse_recurrence_rule")
    /\ calls[1].recurrence_rule = "interval:3"
    /\ calls[1].result = [type |-> "INTERVAL", interval |-> 3, unit |-> "days"]

\* C28: calculate_next_due_date(None, rule) returns None for every rule string,
\* unknown and malformed rules included, and does not raise.
C28_NoDueDateNoParse ==
    \A c \in Requests :
        Applied(c, "calculate_next_due_date") /\ calls[c].current_due_date = NoDate =>
            calls[c].result = [raised |-> FALSE, value |-> NoDate]

\* The producer's calculator returned None for a rule outside the grammar.
C28_Witness ==
    /\ Applied(1, "calculate_next_due_date")
    /\ calls[1].current_due_date = NoDate
    /\ calls[1].recurrence_rule = "FOO"
    /\ calls[1].result = [raised |-> FALSE, value |-> NoDate]

----------------------------------------------------------------------------
(* Properties of the recurrence generator *)

\* C21: a task.completed event that is not a duplicate and whose item is recurring
\* with a rule of the grammar issues exactly one item-creation request; the request
\* carries the next due date of the rule (None when the item has no due date), the
\* same rule and is_recurring true.
C21_GrammarRuleRequestsNext ==
    [][\A i \in Slots :
          LET p == hnd[i].event.payload
              e == hnd[i].event.event_id
          IN ( /\ hnd[i].pc = "effect"
               /\ hnd[i].scope = "recurring"
               /\ hnd'[i].pc = "mark"
               /\ p.is_recurring
               /\ p.recurrence_rule # None
               /\ InGrammar(p.recurrence_rule) )
             => /\ create_reqs'[e] = create_reqs[e] + 1
                /\ hnd'[i].next_task_data =
                      { [due_date |-> next_due_date_of(p.due_date, p.recurrence_rule).value,
                         is_recurring |-> TRUE,
                         recurrence_rule |-> p.recurrence_rule] }]_vars

\* The generator has no next occurrence to request: the item is not recurring, or
\* its calculator finds no next due date for the rule.
NoNextOccurrence(p) ==
    \/ ~p.is_recurring
    \/ p.recurrence_rule = None
    \/ TimedeltaOf[p.recurrence_rule] = {}

\* C22: a task.completed event that is not a duplicate and whose item is not
\* recurring, or whose rule cannot be parsed, is answered with status success,
\* issues no item-creation request, and its marker is written (when the state store
\* takes the write).
C22_NoNextOccurrenceIsSuccess ==
    /\ [][\A i \in Slots :
            LET p == hnd[i].event.payload
                e == hnd[i].event.event_id
            IN /\ ( /\ hnd[i].pc = "effect"
                    /\ hnd[i].scope = "recurring"
                    /\ hnd'[i].pc # "effect"
                    /\ NoNextOccurrence(p) )
                  => /\ hnd'[i].pc = "mark"
                     /\ hnd'[i].status = "success"
                     /\ hnd'[i].next_task_data = {}
                     /\ create_reqs' = create_reqs
               /\ ( /\ hnd[i].pc = "mark"
                    /\ hnd[i].scope = "recurring"
                    /\ hnd'[i].pc = "idle"
                    /\ NoNextOccurrence(p) )
                  => /\ results'["recurring"][e] = Append(results["recurring"][e], "success")
                     /\ create_reqs' = create_reqs
                     /\ store_call'.mode = "ok" =>
                           \E k \in DOMAIN statestore :
                              /\ k = "recurring-processed:" \o e
                              /\ statestore'[k] # NoValue
                              /\ statestore'[k].value = e]_vars
    /\ [](\A event \in broker :
             NoNextOccurrence(event.payload) => create_reqs[event.event_id] = 0)

\* A recurring item with a rule the generator cannot parse was handled: success,
\* no request, marker stored.
C22_Witness ==
    \E event \in broker :
        /\ event.payload.is_recurring
        /\ event.payload.recurrence_rule = "FOO"
        /\ Len(results["recurring"][event.event_id]) > 0
        /\ results["recurring"][event.event_id][1] = "success"
        /\ create_reqs[event.event_id] = 0
        /\ statestore["recurring-processed:" \o event.event_id] # NoValue

----------------------------------------------------------------------------
(* Properties of the task routes *)

\* The publishes request c has made that went through.
Published(c) == { n \in 1..Len(calls[c].log) : calls[c].log[n].method = "PUBLISH" }

\* C23: create_task, update_task, delete_task and complete_task commit the task
\* change before any publish or scheduler call is started, and neither the
\* committed task nor the answer to the caller depends on how the background
\* publishes end: the step of a route stores the rows it answers with and has sent
\* nothing yet; the steps of the background tasks change neither the task table
\* nor the answer.
C23_CommitBeforeBackground ==
    [][\A c \in Requests :
          /\ (calls[c].pc \in {"idle", "done"} /\ calls'[c].pc = "start") =>
                /\ calls'[c].at = 1
                /\ calls'[c].log = << >>
                /\ jobs' = jobs
                /\ broker' = broker
                /\ \A r \in calls'[c].response :
                      /\ tasks'[r.task_id] = r.task
                      /\ r.next_task.exists =>
                            \E id \in DOMAIN tasks : ~tasks[id].exists /\ tasks'[id] = r.next_task
          /\ (calls[c].pc \notin {"idle", "done"} /\ calls'[c] # calls[c]) =>
                /\ tasks' = tasks
                /\ calls'[c].response = calls[c].response
                /\ calls'[c].origin = calls[c].origin]_vars

\* A completion whose publishes all failed is over: the completed task and its
\* next occurrence are stored as answered.
C23_Witness ==
    \E c \in Requests :
        /\ calls[c].pc = "done"
        /\ calls[c].origin = "complete_task"
        /\ Published(c) = {}
        /\ \E r \in calls[c].response :
              /\ r.task.status = "completed"
              /\ tasks[r.task_id] = r.task
              /\ r.next_task.exists
              /\ \E id \in DOMAIN tasks : tasks[id] = r.next_task

----------------------------------------------------------------------------
(* Properties of the notification scope *)

\* The handlings of event e by the notification scope that were not duplicates.
NotificationHandlings(e) ==
    { n \in 1..Len(results["notification"][e]) : results["notification"][e][n] = "success" }

\* C32: in the notification scope the user-facing notification is performed if
\* and only if the event handled (not a duplicate) is a reminder.triggered event; a
\* reminder.scheduled event is recorded and marked processed with no user-facing
\* notification.
C32_NotifyOnlyWhenTriggered ==
    /\ [][\A i \in Slots :
            ( /\ hnd[i].pc = "effect"
              /\ hnd[i].scope = "notification"
              /\ hnd'[i].pc # "effect" )
            => LET e == hnd[i].event.event_id IN
               /\ hnd'[i].pc = "mark"
               /\ notified'[e] = notified[e] + 1
               /\ hnd[i].event.event_type = "reminder.triggered" => sent'[e] = sent[e] + 1
               /\ hnd[i].event.event_type # "reminder.triggered" => sent'[e] = sent[e]]_vars
    /\ [](\A event \in broker :
            /\ event.event_type # "reminder.triggered" => sent[event.event_id] = 0
            /\ ( /\ event.event_type = "reminder.triggered"
                 /\ NotificationHandlings(event.event_id) # {} )
               => sent[event.event_id] >= Cardinality(NotificationHandlings(event.event_id))
            /\ ( /\ event.event_type = "reminder.scheduled"
                 /\ NotificationHandlings(event.event_id) # {} )
               => notified[event.event_id] >= 1)
    /\ [][\A i \in Slots :
            ( /\ hnd[i].pc = "mark"
              /\ hnd[i].scope = "notification"
              /\ hnd'[i].pc = "idle"
              /\ store_call'.mode = "ok" )
            => \E k \in DOMAIN statestore :
                  /\ k = "notification-processed:" \o hnd[i].event.event_id
                  /\ statestore'[k] # NoValue]_vars

\* A reminder.scheduled event was handled and marked with no user-facing
\* notification.
C32_Witness ==
    \E event \in broker :
        /\ event.event_type = "reminder.scheduled"
        /\ results["notification"][event.event_id] = << "success" >>
        /\ notified[event.event_id] = 1
        /\ sent[event.event_id] = 0
        /\ statestore["notification-processed:" \o event.event_id] # NoValue

----------------------------------------------------------------------------
(* Properties of the handler steps *)

\* C33: in every consumer scope a handling runs is_processed, then the effect
\* step, then mark_processed. A marker for (scope, event_id) is written only by a
\* handling that has gone through its effect step (or has found that there is
\* nothing to do), so a stored marker always has its effect behind it.
C33_EffectBeforeMarker ==
    /\ [][\A i \in Slots :
            /\ (hnd[i].pc = "idle" /\ hnd'[i].pc # "idle") => hnd'[i].pc = "check"
            /\ (hnd[i].pc = "check" /\ hnd'[i].pc # "check") => hnd'[i].pc \in {"effect", "idle"}
            /\ (hnd[i].pc = "effect" /\ hnd'[i].pc # "effect") => hnd'[i].pc \in {"mark", "idle"}
            /\ (hnd[i].pc = "mark" /\ hnd'[i].pc # "mark") => hnd'[i].pc = "idle"
            /\ (hnd[i].pc \in {"check", "effect"} /\ hnd'[i] # hnd[i]) =>
                  (writes' = writes /\ statestore' = statestore)
            /\ (hnd[i].pc \in {"check", "mark"} /\ hnd'[i] # hnd[i]) =>
                  (audit_log' = audit_log /\ notified' = notified /\ sent' = sent
                   /\ create_reqs' = create_reqs)]_vars
    /\ [][\A s \in Scopes, e \in EventIds :
            LET k == s \o "-processed:" \o e IN
            writes'[k] # writes[k] =>
                \E i \in Slots : /\ hnd[i].pc = "mark"
                                 /\ hnd[i].scope = s
                                 /\ hnd[i].event.event_id = e
                                 /\ hnd'[i].pc = "idle"]_vars
    /\ [](\A s \in Scopes, e \in EventIds :
            LET k == s \o "-processed:" \o e IN
            /\ statestore[k] # NoValue => writes[k] >= 1
            /\ (s \in {"audit", "notification"} \/ EffectsPerHandling(s, e) = 1) =>
                  writes[k] <= EffectCount(s, e))

\* A marker is stored for an audit event whose record was stored first.
C33_Witness ==
    \E e \in EventIds :
        /\ statestore["audit-processed:" \o e] # NoValue
        /\ writes["audit-processed:" \o e] = 1
        /\ audit_log[e] = 1

\* C40: in the audit scope a failed store of the audit record writes no marker
\* and the endpoint answers 5xx, so that a redelivery of the event is handled
\* again; a marker audit-processed:<event_id> exists only if an audit record with
\* that event_id was stored.
C40_NoMarkerWithoutAuditRecord ==
    /\ [](\A e \in EventIds :
            LET k == "audit-processed:" \o e
                r == results["audit"][e]
            IN /\ statestore[k] # NoValue => audit_log[e] >= 1
               /\ writes[k] <= audit_log[e]
               /\ \A n \in 1..Len(r) :
                     r[n] = "exception" =>
                        /\ responses["audit"][e][n].status_code >= 500
                        /\ (~faults[k] /\ n < Len(r)) => r[n + 1] # "duplicate")
    /\ [][\A i \in Slots :
            ( /\ hnd[i].pc = "effect"
              /\ hnd[i].scope = "audit"
              /\ hnd'[i].pc = "idle" )
            => LET e == hnd[i].event.event_id IN
               /\ results'["audit"][e] = Append(results["audit"][e], "exception")
               /\ audit_log' = audit_log
               /\ statestore' = statestore
               /\ writes' = writes]_vars

\* A failed store was answered 500 and left no marker; the redelivery stored the
\* record and the marker.
C40_Witness ==
    \E e \in EventIds :
        /\ results["audit"][e] = << "exception", "success" >>
        /\ responses["audit"][e][1].status_code = 500
        /\ audit_log[e] = 1
        /\ statestore["audit-processed:" \o e] # NoValue

----------------------------------------------------------------------------
(* Properties of the publisher *)

AttemptFailed(n) ==
    posts[n].response.raised \/ posts[n].response.status_code \notin {200, 201, 204}

\* C5: with the broker enabled publish_event makes at most MAX_RETRIES POSTs; it
\* returns the envelope at the first POST answered with success and makes no
\* further one; it raises EventPublishError exactly when MAX_RETRIES POSTs have
\* all failed, and never returns an envelope after all attempts failed.
C5_BoundedAttempts ==
    config.DAPR_ENABLED =>
        /\ Len(posts) <= MAX_RETRIES
        /\ \A n \in 1..(Len(posts) - 1) : AttemptFailed(n)
        /\ pub.pc = "idle" => Len(posts) = 0
        /\ pub.pc = "post" => /\ Len(posts) < MAX_RETRIES
                              /\ pub.attempt = Len(posts) + 1
                              /\ \A n \in 1..Len(posts) : AttemptFailed(n)
        /\ pub.pc = "returned" => Len(posts) >= 1 /\ ~AttemptFailed(Len(posts))
        /\ pub.pc = "raised" => Len(posts) = MAX_RETRIES /\ AttemptFailed(Len(posts))

C5_Witness ==
    /\ config.DAPR_ENABLED
    /\ pub.pc = "raised"
    /\ Len(posts) = MAX_RETRIES
    /\ posts[1].response.raised /\ posts[2].response.status_code = 500

\* C6: every POST of one publish_event call carries the event_id of the envelope
\* the call returns; that id is the caller's when the caller passed one (None and
\* the empty string both count as none passed), and a retry draws no new id.
C6_OneEventIdPerCall ==
    /\ [](pub.pc # "idle" =>
            /\ \A n \in 1..Len(posts) : posts[n].event_id = pub.event.event_id
            /\ pub.event_id \notin {None, ""} => pub.event.event_id = pub.event_id
            /\ pub.event.event_id \in used)
    /\ [][pub.pc = "post" => (used' = used /\ pub'.event = pub.event)]_vars

C6_Witness ==
    /\ pub.pc = "returned"
    /\ Len(posts) = MAX_RETRIES
    /\ pub.event_id \in EventIds
    /\ \A n \in 1..Len(posts) : posts[n].event_id = pub.event_id

\* C7: every POST answered with a 2xx status ends publish_event successfully and
\* is the last POST of the call.
C7_Any2xxSucceeds ==
    \A n \in 1..Len(posts) :
        (~posts[n].response.raised /\ posts[n].response.status_code \in 200..299) =>
            (n = Len(posts) /\ pub.pc = "returned")

\* C31: with the broker disabled (DAPR_ENABLED false) publish_event makes no POST
\* to the sidecar, sleeps for no retry, never raises EventPublishError, and
\* returns an envelope with event_id, event_type, timestamp, user_id, payload,
\* source and specversion set.
C31_LocalModeReturnsEnvelope ==
    (~config.DAPR_ENABLED /\ pub.pc # "idle") =>
        /\ pub.pc = "returned"
        /\ posts = << >>
        /\ pub.sleeps = << >>
        /\ broker = {}
        /\ DOMAIN pub.event = {"event_id", "event_type", "timestamp", "user_id", "payload",
                               "source", "specversion"}
        /\ pub.event.event_id \in EventIds
        /\ pub.event_id \in EventIds => pub.event.event_id = pub.event_id
        /\ pub.event.event_type \in {"task.completed", "reminder.scheduled", "reminder.triggered"}
        /\ pub.event.timestamp = "utcnow"
        /\ pub.event.user_id = "u1"
        /\ pub.event.payload.task_id = "t1"
        /\ pub.event.source = "chat-api"
        /\ pub.event.specversion = "1.0"

\* In local mode a call that passed no event_id has returned its envelope.
C31_Witness ==
    /\ ~config.DAPR_ENABLED
    /\ pub.pc = "returned"
    /\ pub.event_id = None
    /\ pub.event.event_id \in EventIds
    /\ posts = << >>

\* C34: after failed attempt k, 1 <= k < MAX_RETRIES, publish_event sleeps
\* RETRY_DELAY_SECONDS * 2^(k-1) (the base delay, then its double), and it does
\* not sleep after the last failed attempt before it raises.
C34_ExponentialBackoff ==
    pub.pc # "idle" =>
        /\ \A k \in 1..Len(pub.sleeps) : pub.sleeps[k] = RETRY_DELAY_MS * 2 ^ (k - 1)
        /\ Len(pub.sleeps) = pub.attempt - 1
        /\ pub.pc = "post" => Len(pub.sleeps) = Len(posts)
        /\ pub.pc = "raised" => (Len(posts) = MAX_RETRIES /\ Len(pub.sleeps) = MAX_RETRIES - 1)

\* All attempts failed: the call slept the base delay and its double, and raised.
C34_Witness ==
    /\ pub.pc = "raised"
    /\ Len(posts) = MAX_RETRIES
    /\ pub.sleeps = << RETRY_DELAY_MS, 2 * RETRY_DELAY_MS >>

----------------------------------------------------------------------------
(* Properties of the reminder path *)

RECURSIVE SumOver(_, _)
SumOver(f, S) ==
    IF S = {} THEN 0
    ELSE LET x == CHOOSE y \in S : TRUE IN f[x] + SumOver(f, S \ {x})

\* User-facing notifications performed for the firing of a job.
NotificationsFor(job) ==
    SumOver(sent, { e \in EventIds :
                      \E event \in broker : /\ event.event_id = e
                                            /\ event.payload.task_id = JobData(job).task_id })

\* C4: for one scheduled reminder job the user-facing notification is performed
\* at most once, also when the scheduler invokes the callback route more than once
\* (deliveries one after the other, store reachable, no marker expired).
C4_OneNotificationPerJob ==
    (\A k \in Keys : ~faults[k] /\ ~expired[k] /\ ~overlap[k]) =>
        \A job \in Jobs : NotificationsFor(job) <= 1

----------------------------------------------------------------------------

Next == ConsumerNext

Spec == Init /\ [][Next]_vars

====
